---- MODULE Spec2Model ----
(***************************************************************************)
(* Model of the video-learning application: the three-tier transcript      *)
(* acquisition of VideoProcessor, the shared GoogleADKManager text         *)
(* generation client, the generation agents and the video-processing page  *)
(* of main.py.                                                             *)
(*                                                                         *)
(* Python strings are sequences of tokens.  A token is a record whose      *)
(* field c names a literal piece of text; a token that stands for a JSON   *)
(* document also carries the parsed value in field v.  Python exceptions   *)
(* are results of kind "raise".                                            *)
(***************************************************************************)
EXTENDS Integers, Sequences, FiniteSets, TLC

VARIABLES api_key, adk, ss, run

vars == <<api_key, adk, ss, run>>

----------------------------------------------------------------------------
(* Bounds of the model *)

\* a tier's text is at most MaxOver characters longer than the threshold
MaxOver == 1
\* whitespace put before and after a text
MaxPad == 1
\* most caption entries the captions adapter returns
MaxEntries == 2
\* an identifier part is at most MaxExtra characters longer than IdLen
MaxExtra == 2
\* most entries of watched_videos
MaxWatched == 2
\* most items in a list the provider replies with
MaxItems == 2
\* largest num_questions and num_cards asked for
MaxCount == 4
\* a chat history is at most MaxHistoryOver turns longer than HistoryLimit
MaxHistoryOver == 1
\* most references to the manager held at once
MaxRefs == 3
\* most generate_text calls counted after a set_model
MaxCalls == 2
\* most questions of a quiz
MaxQuestions == 3
\* most milestones of a learning path
MaxMilestones == 2

----------------------------------------------------------------------------
(* Program constants *)

\* len(transcript.strip()) > 50
MinTranscriptLen == 50
\* ([a-zA-Z0-9_-]{11})
IdLen == 11
\* st.session_state.user_progress += 2
ProgressStep == 2
\* if st.session_state.user_progress > 100
MaxProgress == 100
\* 2. Provide 4 possible answers as an array of strings
NumOptions == 4
\* for msg in chat_history[-5:]
HistoryLimit == 5
\* st.session_state.user_progress += 5
MilestoneStep == 5
\* int(score_percentage / 10)
ScoreDivisor == 10

----------------------------------------------------------------------------
(* Strings *)

Ch == [c |-> "a"]
Ws == [c |-> " "]
FailedToTranscribe == [c |-> "Failed to transcribe"]
DemoNotice == [c |-> "[DEMO MODE] The following is a sample transcript as the original video transcript could not be extracted:\n\n"]
HardcodedSample == [c |-> "This is a sample transcript about artificial intelligence and machine learning technologies. ..."]
InvalidUrlMsg == [c |-> "Invalid YouTube URL. Please provide a valid YouTube video URL."]
InvalidUrlPrefix == [c |-> "Invalid YouTube URL: "]

\* number of characters of a token
TokLen(t) ==
    CASE t = Ch -> 1
      [] t = Ws -> 1
      [] t = FailedToTranscribe -> 20
      [] t = DemoNotice -> 107
      [] t = HardcodedSample -> 283
      [] t = InvalidUrlMsg -> 62
      [] t = InvalidUrlPrefix -> 21
      [] OTHER -> 1

RECURSIVE StrLen(_)
StrLen(s) == IF s = <<>> THEN 0 ELSE TokLen(Head(s)) + StrLen(Tail(s))

RECURSIVE LStrip(_)
LStrip(s) == IF s # <<>> /\ Head(s) = Ws THEN LStrip(Tail(s)) ELSE s

RECURSIVE RStrip(_)
RStrip(s) ==
    IF s # <<>> /\ s[Len(s)] = Ws THEN RStrip(SubSeq(s, 1, Len(s) - 1)) ELSE s

\* str.strip()
Strip(s) == RStrip(LStrip(s))

\* str.startswith(prefix), prefix a one-token literal
StartsWith(s, tok) == s # <<>> /\ Head(s) = tok

RECURSIVE Rep(_, _)
Rep(tok, n) == IF n <= 0 THEN <<>> ELSE <<tok>> \o Rep(tok, n - 1)

\* ' '.join(parts)
RECURSIVE Join(_)
Join(parts) ==
    IF parts = <<>> THEN <<>>
    ELSE IF Len(parts) = 1 THEN parts[1]
    ELSE parts[1] \o <<Ws>> \o Join(Tail(parts))

\* results of a call
Raise(e) == [kind |-> "raise", exc |-> e]
Ret(v) == [kind |-> "ret", val |-> v]
NoneVal == [kind |-> "none"]

----------------------------------------------------------------------------
(* VideoProcessor.extract_video_id *)

\* what precedes the identifier part of a URL, and whether youtube_regex
\* has an alternative that consumes it up to the identifier
UrlPrefixes ==
    { "https://www.youtube.com/watch?v=", "https://youtu.be/",
      "https://www.youtube.com/embed/", "https://www.youtube.com/v/",
      "https://www.youtube.com/e/", "https://www.youtube.com/user/x/",
      "https://www.youtube.com/", "https://vimeo.com/", "" }

IdChars == {"A", "_", "-"}
IdAlphabet == <<"A", "_", "-">>

\* the (?:...) group of youtube_regex matches at the end of this prefix
PrefixMatches(p) ==
    p \in { "https://www.youtube.com/watch?v=",   \* \S*?[?&]v=
            "https://youtu.be/",                  \* youtu\.be\/
            "https://www.youtube.com/embed/",     \* e(?:mbed)?\/
            "https://www.youtube.com/v/",         \* v\/
            "https://www.youtube.com/e/",         \* e\/
            "https://www.youtube.com/user/x/" }   \* [^\/\n\s]+\/\S+\/

\* ([a-zA-Z0-9_-]{11}): the next IdLen characters, all identifier characters
MatchId(tail) ==
    IF Len(tail) >= IdLen /\ \A i \in 1..IdLen : tail[i] \in IdChars
    THEN Ret(SubSeq(tail, 1, IdLen))
    ELSE NoneVal

extract_video_id(url) ==
    LET match == IF PrefixMatches(url.prefix) THEN MatchId(url.tail) ELSE NoneVal
    IN  IF match.kind = "ret" THEN Ret(match.val) ELSE Raise("ValueError")

----------------------------------------------------------------------------
(* GoogleADKManager: the singleton and its attributes *)

\* the methods class GoogleADKManager defines
ManagerMethods == {"__new__", "_initialize", "set_model", "get_model", "generate_text"}

DefaultModel == "gemini-1.5-flash"

\* a constructor that initializes on every call
ConstructAnew(a, key) ==
    IF key
    THEN [adk |-> [inst |-> "ready", model |-> DefaultModel], raised |-> FALSE]
    ELSE [adk |-> [inst |-> "uninit", model |-> "unset"], raised |-> TRUE]

\* GoogleADKManager(): __new__ and _initialize.  Gives the new singleton
\* state and whether the construction raised.
Construct(a, key) ==
    IF a.inst = "none"
    THEN IF key
         THEN [adk |-> [inst |-> "ready", model |-> DefaultModel], raised |-> FALSE]
         ELSE [adk |-> [inst |-> "uninit", model |-> "unset"], raised |-> TRUE]
    ELSE [adk |-> a, raised |-> FALSE]

\* VideoProcessor.__init__: self.gemini_manager is the manager or None
VideoProcessorInit(a, key) ==
    LET c == Construct(a, key)
    IN  [adk |-> c.adk, gemini_manager |-> IF c.raised THEN "None" ELSE "manager"]

----------------------------------------------------------------------------
(* VideoProcessor.extract_transcript and load_sample_transcript *)

\* the sufficiency test of a tier: transcript and len(transcript.strip()) > 50
SufficientAtBoundary(text) == text # <<>> /\ StrLen(Strip(text)) >= MinTranscriptLen

SufficientOffByOne(text) == text # <<>> /\ StrLen(Strip(text)) > MinTranscriptLen + 1

Sufficient(text) == text # <<>> /\ StrLen(Strip(text)) > MinTranscriptLen

\* ' '.join(entry['text'] for entry in transcript_list): KeyError when an
\* entry has no 'text'
JoinEntries(entries) ==
    IF \E i \in 1..Len(entries) : ~entries[i].has_text
    THEN Raise("KeyError")
    ELSE Ret(Join([i \in 1..Len(entries) |-> entries[i].text]))

\* tier 1 without its content check: if transcript_list: return transcript
Tier1Unchecked(t1) ==
    IF t1.kind = "raise" THEN NoneVal
    ELSE IF t1.kind = "none" \/ t1.entries = <<>> THEN NoneVal
    ELSE LET j == JoinEntries(t1.entries)
         IN  IF j.kind = "raise" THEN NoneVal ELSE Ret(j.val)

\* tier 1, lines 135-144: the text returned, or NoneVal to fall through
Tier1(t1) ==
    IF t1.kind = "raise" THEN NoneVal
    ELSE IF t1.kind = "none" \/ t1.entries = <<>> THEN NoneVal
    ELSE LET j == JoinEntries(t1.entries)
         IN  IF j.kind = "raise" THEN NoneVal
             ELSE IF Sufficient(j.val) THEN Ret(j.val) ELSE NoneVal

\* self.gemini_manager.transcribe_youtube_video(video_id): an attribute the
\* class does not define raises AttributeError; ai is what the provider
\* would answer
transcribe_youtube_video(ai) ==
    IF "transcribe_youtube_video" \in ManagerMethods THEN ai
    ELSE Raise("AttributeError")

\* tier 2, lines 147-161
Tier2(ai) ==
    LET r == transcribe_youtube_video(ai)
    IN  IF r.kind = "ret" /\ r.val # <<>>
           /\ ~StartsWith(r.val, FailedToTranscribe) /\ Sufficient(r.val)
        THEN Ret(r.val)
        ELSE NoneVal

SampleFileText == [c |-> "sample_transcript_clean.txt"]

\* load_sample_transcript: the stripped file, or the hardcoded literal when
\* the read raises
load_sample_transcript(sample) ==
    IF sample.kind = "ret" THEN Strip(sample.val) ELSE <<HardcodedSample>>

\* extract_transcript: the text returned and the sources tried, in order
extract_transcript(gemini_manager, t1, ai, sample) ==
    LET r1 == Tier1(t1)
        try2 == gemini_manager # "None"
        r2 == IF try2 THEN Tier2(ai) ELSE NoneVal
        c2 == IF try2 THEN <<"captions", "gemini">> ELSE <<"captions">>
    IN  IF r1.kind = "ret"
        THEN [kind |-> "ret", val |-> r1.val, calls |-> <<"captions">>]
        ELSE IF r2.kind = "ret"
        THEN [kind |-> "ret", val |-> r2.val, calls |-> c2]
        ELSE [kind |-> "ret",
              val |-> <<DemoNotice>> \o load_sample_transcript(sample),
              calls |-> c2 \o <<"sample">>]

----------------------------------------------------------------------------
(* JSON values and the Python operations the agents apply to them *)

JNull == [kind |-> "null"]
JNum == [kind |-> "num"]
\* a string is the sequence of its words
JStr(words) == [kind |-> "str", words |-> words]
JList(items) == [kind |-> "list", items |-> items]
\* d is a function from the keys present to their values
JDict(d) == [kind |-> "dict", d |-> d]

EmptyDict == JDict([k \in {} |-> JNull])

\* sub in word, for the key names the agents test
WordContains(word, sub) ==
    \/ word = sub
    \/ word = "incorrect_feedback" /\ sub = "correct_feedback"

\* key in x raises TypeError: x is not iterable
InRaises(x) == x.kind \in {"null", "num"}

\* key in x for a str key, where it does not raise: a key of a dict, an
\* element of a list, a substring of a str
In(key, x) ==
    CASE x.kind = "dict" -> key \in DOMAIN x.d
      [] x.kind = "list" -> \E i \in 1..Len(x.items) : x.items[i] = JStr(<<key>>)
      [] x.kind = "str" -> \E i \in 1..Len(x.words) : WordContains(x.words[i], key)
      [] OTHER -> FALSE

\* bool(x)
Truthy(x) ==
    CASE x.kind = "dict" -> DOMAIN x.d # {}
      [] x.kind = "list" -> x.items # <<>>
      [] x.kind = "str" -> x.words # <<>>
      [] x.kind = "num" -> TRUE
      [] OTHER -> FALSE

\* x[key] = value on a dict
DictSet(x, key, value) ==
    JDict([k \in DOMAIN x.d \cup {key} |-> IF k = key THEN value ELSE x.d[k]])

\* the first n items of a list: items[:n], n >= 0
FirstN(items, n) == SubSeq(items, 1, IF n < Len(items) THEN n ELSE Len(items))

----------------------------------------------------------------------------
(* Provider replies and GoogleADKManager.generate_text *)

\* the three backticks of a code fence
Fence == [c |-> "fence"]
JsonTag == [c |-> "json"]
OtherTag == [c |-> "python"]
Prose == [c |-> "Here is the result:"]
FailedToGenerate == [c |-> "Failed to generate response: "]

\* the text of a JSON document, with the value it parses to
Doc(v) == [c |-> "doc", v |-> v]
IsDoc(tok) == tok.c = "doc"

\* str(e) of an exception
ExcText(e) == [c |-> "str(e)", exc |-> e]

\* exceptions whose message holds a double quote
QuotingExceptions == {"QuotedProviderError"}

\* the fence directly followed by json is in text
HasJsonFence(text) ==
    \E i \in 1..(Len(text) - 1) : text[i] = Fence /\ text[i + 1] = JsonTag

HasFence(text) == \E i \in 1..Len(text) : text[i] = Fence

\* text.replace(fence + "json", "")
RECURSIVE RemoveJsonFences(_)
RemoveJsonFences(text) ==
    IF text = <<>> THEN <<>>
    ELSE IF Len(text) >= 2 /\ text[1] = Fence /\ text[2] = JsonTag
    THEN RemoveJsonFences(SubSeq(text, 3, Len(text)))
    ELSE <<Head(text)>> \o RemoveJsonFences(Tail(text))

\* text.replace(fence, "")
RECURSIVE RemoveFences(_)
RemoveFences(text) ==
    IF text = <<>> THEN <<>>
    ELSE IF Head(text) = Fence THEN RemoveFences(Tail(text))
    ELSE <<Head(text)>> \o RemoveFences(Tail(text))

\* text.split(fence): the list of the parts between fences
RECURSIVE SplitFences(_)
SplitFences(text) ==
    IF ~HasFence(text) THEN <<text>>
    ELSE LET i == CHOOSE k \in 1..Len(text) :
                    text[k] = Fence /\ \A j \in 1..(k - 1) : text[j] # Fence
         IN  <<SubSeq(text, 1, i - 1)>> \o SplitFences(SubSeq(text, i + 1, Len(text)))

\* lines 93-104: the clean-up of a reply to a JSON request
CleanJsonReply(text) ==
    Strip(IF HasJsonFence(text) THEN RemoveFences(RemoveJsonFences(text))
          ELSE IF HasFence(text)
          THEN LET inner == SplitFences(text)[2]
               IN  IF HasFence(inner) THEN SplitFences(inner)[1] ELSE inner
          ELSE text)

\* lines 108-114: the text returned when the call raised
FailureReply(response_format, e) ==
    IF response_format = "json"
    THEN IF e \in QuotingExceptions
         THEN <<[c |-> "{error: Failed to generate response, message: "],
                ExcText(e), [c |-> "}"]>>
         ELSE <<Doc(JDict([error |-> JStr(<<"Failed", "to", "generate", "response">>),
                           message |-> JStr(<<e>>)]))>>
    ELSE <<FailedToGenerate, ExcText(e)>>

\* generate_text: reading self._model_name raises AttributeError on an
\* instance _initialize did not complete; provider is what
\* model.generate_content and response.text do
generate_text(a, response_format, provider) ==
    IF a.model = "unset" THEN FailureReply(response_format, "AttributeError")
    ELSE IF provider.kind = "raise" THEN FailureReply(response_format, provider.exc)
    ELSE IF response_format = "json" THEN CleanJsonReply(provider.val)
    ELSE provider.val

\* json.loads: surrounding whitespace is allowed around the one document
json_loads(text) ==
    LET s == Strip(text)
    IN  IF Len(s) = 1 /\ IsDoc(s[1]) THEN Ret(s[1].v) ELSE Raise("JSONDecodeError")

----------------------------------------------------------------------------
(* Arguments of the agents *)

\* a Python str argument, with its text
PyText(text) == [kind |-> "text", text |-> text]
\* an argument that is neither None nor a str
PyNum == [kind |-> "num"]

\* video_info.get('title', 'Unknown') and the like: None has no get
GetRaises(video_info) == video_info.kind # "dict"

\* transcript[:8000]: None and numbers are not subscriptable
SliceRaises(transcript) == transcript.kind # "text"

\* the type test alone
InvalidTranscriptTypeOnly(transcript) == transcript.kind # "text"

\* not transcript or not isinstance(transcript, str)
InvalidTranscript(transcript) ==
    transcript.kind # "text" \/ transcript.text = <<>>

\* len(transcript.strip()) < 50
TooShort(transcript) == StrLen(Strip(transcript.text)) < MinTranscriptLen

----------------------------------------------------------------------------
(* Filling the fields a parsed reply lacks *)

\* one required field: its key, the default, and whether a falsy value is
\* replaced too
Field(key, default, replace_empty) ==
    [key |-> key, default |-> default, replace_empty |-> replace_empty]

\* if key not in x [or not x[key]]: x[key] = default, for each field in
\* order.  Only a dict takes the subscript and the assignment.
RECURSIVE FillFields(_, _)
FillFields(x, fields) ==
    IF fields = <<>> THEN Ret(x)
    ELSE LET f == Head(fields)
         IN  IF InRaises(x) THEN Raise("TypeError")
             ELSE IF ~In(f.key, x)
             THEN IF x.kind = "dict"
                  THEN FillFields(DictSet(x, f.key, f.default), Tail(fields))
                  ELSE Raise("TypeError")
             ELSE IF ~f.replace_empty THEN FillFields(x, Tail(fields))
             ELSE IF x.kind # "dict" THEN Raise("TypeError")
             ELSE IF ~Truthy(x.d[f.key])
             THEN FillFields(DictSet(x, f.key, f.default), Tail(fields))
             ELSE FillFields(x, Tail(fields))

\* a Python string literal, and a list of them
Lit(s) == JStr(<<s>>)
LitList(strs) == JList([i \in 1..Len(strs) |-> Lit(strs[i])])

----------------------------------------------------------------------------
(* SummarizerAgent *)

OverviewOf(description, topic) ==
    JDict([ description |-> description, primary_topic |-> Lit(topic),
            target_audience |-> Lit("Unknown"), content_type |-> Lit("Unknown") ])

OverviewInvalidTranscript ==
    OverviewOf(Lit("Unable to generate overview: Invalid transcript format."), "Unknown")
OverviewTooShort ==
    OverviewOf(Lit("Unable to generate overview: Transcript too short or empty."), "Unknown")
OverviewInvalidResponse ==
    OverviewOf(Lit("Unable to generate overview: Invalid response format."),
               "Processing Error")
OverviewError(e) ==
    OverviewOf(JStr(<<"Unable to generate overview: ", e, "...">>), "Error")

OverviewFields ==
    << Field("description", Lit("Overview not available."), FALSE),
       Field("primary_topic", Lit("Topic not identified."), FALSE),
       Field("target_audience", Lit("Audience not identified."), FALSE),
       Field("content_type", Lit("Content type not identified."), FALSE) >>

generate_overview(a, transcript, video_info, provider) ==
    IF InvalidTranscript(transcript) THEN Ret(OverviewInvalidTranscript)
    ELSE IF TooShort(transcript) THEN Ret(OverviewTooShort)
    ELSE IF GetRaises(video_info) THEN Raise("AttributeError")
    ELSE LET parsed == json_loads(generate_text(a, "json", provider))
             filled == FillFields(parsed.val, OverviewFields)
         IN  IF parsed.kind = "raise" THEN Ret(OverviewInvalidResponse)
             ELSE IF filled.kind = "raise" THEN Ret(OverviewError(filled.exc))
             ELSE filled

SummaryOf(text, points, topics) ==
    JDict([summary_text |-> text, key_points |-> points, topics |-> topics])

SummaryInvalidTranscript ==
    SummaryOf(Lit("Unable to generate summary: Invalid transcript format."),
              LitList(<<"Invalid transcript data",
                        "Please ensure the video has captions available">>),
              LitList(<<"Error: Invalid Input">>))
SummaryTooShort ==
    SummaryOf(Lit("Unable to generate summary: Transcript too short or empty."),
              LitList(<<"Insufficient transcript content",
                        "The video may have limited or no captions">>),
              LitList(<<"Error: Insufficient Content">>))
SummaryInvalidResponse ==
    SummaryOf(Lit("Unable to generate summary: Invalid response format."),
              LitList(<<"Error parsing AI response", "JSON error: ...",
                        "Raw response: ...">>),
              LitList(<<"Error: Response Formatting Issue">>))
SummaryError(e) ==
    SummaryOf(JStr(<<"Unable to generate summary due to an error: ", e>>),
              JList(<< JStr(<<"Error: ", e>>),
                       Lit("This may be due to API rate limits, connection issues, or content policies"),
                       Lit("Please try again with a different video or transcript") >>),
              JList(<<JStr(<<"Error: ", e>>)>>))

SummaryFields ==
    << Field("summary_text", Lit("Summary not available."), FALSE),
       Field("key_points", LitList(<<"Key points not available.">>), TRUE),
       Field("topics", LitList(<<"Topics not available.">>), TRUE) >>

\* lines 230-242: the content of the first code block, without its json
\* tag; the text after a lone fence
SummaryClean(text) ==
    IF ~HasFence(text) THEN text
    ELSE LET parts == SplitFences(text)
         IN  IF Len(parts) >= 3
             THEN IF StartsWith(parts[2], JsonTag) THEN Strip(Tail(parts[2]))
                  ELSE parts[2]
             ELSE Strip(parts[Len(parts)])

generate_summary(a, transcript, video_info, provider) ==
    IF InvalidTranscript(transcript) THEN Ret(SummaryInvalidTranscript)
    ELSE IF TooShort(transcript) THEN Ret(SummaryTooShort)
    ELSE IF GetRaises(video_info) THEN Raise("AttributeError")
    ELSE LET parsed == json_loads(SummaryClean(generate_text(a, "json", provider)))
             filled == FillFields(parsed.val, SummaryFields)
         IN  IF parsed.kind = "raise" THEN Ret(SummaryInvalidResponse)
             ELSE IF filled.kind = "raise" THEN Ret(SummaryError(filled.exc))
             ELSE filled

----------------------------------------------------------------------------
(* QuizAgent and FlashcardAgent *)

QuizKeys ==
    <<"question", "options", "correct_answer", "correct_feedback", "incorrect_feedback">>
FlashcardKeys == <<"front", "back">>

Question(question, options, correct_answer, correct_feedback, incorrect_feedback) ==
    JDict([ question |-> Lit(question), options |-> LitList(options),
            correct_answer |-> Lit(correct_answer),
            correct_feedback |-> Lit(correct_feedback),
            incorrect_feedback |-> Lit(incorrect_feedback) ])

sample_questions ==
    << Question("What is the main concept discussed in the video?",
                <<"Option A", "Option B", "Option C", "Option D">>, "Option B",
                "That's correct! The video primarily focuses on Option B.",
                "Not quite. The video primarily discusses Option B."),
       Question("According to the video, which technique is most effective?",
                <<"Technique 1", "Technique 2", "Technique 3", "Technique 4">>,
                "Technique 3",
                "Correct! The video demonstrates that Technique 3 is most effective.",
                "Actually, the video specifically shows Technique 3 to be most effective.") >>

Flashcard(front, back) == JDict([front |-> Lit(front), back |-> Lit(back)])

sample_flashcards ==
    << Flashcard("What is the main concept discussed in the video?",
                 "The video primarily discusses machine learning algorithms and their applications."),
       Flashcard("Define supervised learning as mentioned in the video",
                 "Supervised learning is a machine learning approach where the model is trained on labeled data."),
       Flashcard("What example of neural networks was given in the video?",
                 "The video used image recognition systems as an example of neural networks.") >>

\* samples * k
RECURSIVE Times(_, _)
Times(samples, k) == IF k <= 0 THEN <<>> ELSE samples \o Times(samples, k - 1)

\* the repetition without the extra copy
CycleSamplesShort(samples, n) == FirstN(Times(samples, n \div Len(samples)), n)

\* (samples * (n // len(samples) + 1))[:n]
CycleSamples(samples, n) == FirstN(Times(samples, (n \div Len(samples)) + 1), n)

\* all(key in item for key in keys) raises TypeError
AllKeysRaises(item) == InRaises(item)

AllKeysIn(item, keys) == \A i \in 1..Len(keys) : In(keys[i], item)

\* the items of the reply that pass the key test, in order
RECURSIVE KeepComplete(_, _)
KeepComplete(items, keys) ==
    IF items = <<>> THEN <<>>
    ELSE IF AllKeysIn(Head(items), keys)
    THEN <<Head(items)>> \o KeepComplete(Tail(items), keys)
    ELSE KeepComplete(Tail(items), keys)

\* the try body both agents share: the list under wrapper, or the reply
\* itself, cut to n items and filtered; Raise for every way into the
\* except clause
ItemsFromReply(text, wrapper, keys, n) ==
    LET parsed == json_loads(text)
        data == parsed.val
        items == IF In(wrapper, data) THEN data.d[wrapper] ELSE data
        cut == FirstN(items.items, n)
    IN  IF parsed.kind = "raise" THEN Raise("JSONDecodeError")
        ELSE IF InRaises(data) THEN Raise("TypeError")
        ELSE IF In(wrapper, data) /\ data.kind # "dict" THEN Raise("TypeError")
        ELSE IF items.kind # "list" THEN Raise("ValueError")
        ELSE IF \E i \in 1..Len(cut) : AllKeysRaises(cut[i]) THEN Raise("TypeError")
        ELSE Ret(JList(KeepComplete(cut, keys)))

generate_quiz(a, transcript, video_info, num_questions, provider) ==
    IF GetRaises(video_info) THEN Raise("AttributeError")
    ELSE IF SliceRaises(transcript) THEN Raise("TypeError")
    ELSE LET r == ItemsFromReply(generate_text(a, "json", provider), "questions",
                                 QuizKeys, num_questions)
         IN  IF r.kind = "ret" THEN r
             ELSE Ret(JList(CycleSamples(sample_questions, num_questions)))

generate_flashcards(a, transcript, video_info, num_cards, provider) ==
    IF GetRaises(video_info) THEN Raise("AttributeError")
    ELSE IF SliceRaises(transcript) THEN Raise("TypeError")
    ELSE LET r == ItemsFromReply(generate_text(a, "json", provider), "flashcards",
                                 FlashcardKeys, num_cards)
         IN  IF r.kind = "ret" THEN r
             ELSE Ret(JList(CycleSamples(sample_flashcards, num_cards)))

----------------------------------------------------------------------------
(* LearningPathAgent *)

PathKeys ==
    <<"next_steps", "recommended_videos", "additional_resources", "milestones",
      "skill_assessments">>

\* the defaults of lines 135-227, one list per field
DefaultOf(key) == LitList(<<"default", key>>)

RecommendationFields ==
    << Field("next_steps", DefaultOf("next_steps"), TRUE),
       Field("recommended_videos", DefaultOf("recommended_videos"), TRUE),
       Field("additional_resources", DefaultOf("additional_resources"), FALSE),
       Field("milestones", DefaultOf("milestones"), TRUE),
       Field("skill_assessments", DefaultOf("skill_assessments"), FALSE) >>

\* the dict of lines 233-305
FallbackRecommendations ==
    JDict([k \in {PathKeys[i] : i \in 1..Len(PathKeys)} |-> LitList(<<"fallback", k>>)])

generate_recommendations(a, provider) ==
    LET parsed == json_loads(generate_text(a, "json", provider))
        filled == FillFields(parsed.val, RecommendationFields)
    IN  IF parsed.kind = "raise" THEN Ret(FallbackRecommendations)
        ELSE IF filled.kind = "raise" THEN Ret(FallbackRecommendations)
        ELSE filled

\* current_recommendations.get(key, [])
GetOrEmpty(current, key) ==
    IF key \in DOMAIN current.d THEN current.d[key] ELSE JList(<<>>)

UpdateFields(current) ==
    << Field("next_steps", GetOrEmpty(current, "next_steps"), FALSE),
       Field("recommended_videos", GetOrEmpty(current, "recommended_videos"), FALSE),
       Field("milestones", GetOrEmpty(current, "milestones"), FALSE) >>

\* ', '.join(...) over a field of the current path raises: the field is
\* no list, or an item is not of the kind the prompt formats (a str for
\* next_steps, a dict whose title is a str for recommended_videos, a dict
\* for milestones)
JoinRaises(value, key) ==
    \/ value.kind \notin {"list", "str", "dict"}
    \/ /\ value.kind = "list"
       /\ \E i \in 1..Len(value.items) :
             LET item == value.items[i]
             IN  IF key = "next_steps" THEN item.kind # "str"
                 ELSE \/ item.kind # "dict"
                      \/ /\ key = "recommended_videos"
                         /\ "title" \in DOMAIN item.d
                         /\ item.d.title.kind # "str"
    \/ value.kind = "str" /\ key # "next_steps" /\ value.words # <<>>
    \/ value.kind = "dict" /\ key # "next_steps" /\ DOMAIN value.d # {}

\* lines 515-527: building the prompt from the current path raises
UpdatePromptRaises(current) ==
    \E k \in {"next_steps", "recommended_videos", "milestones"} :
        JoinRaises(GetOrEmpty(current, k), k)

\* the whole body is in the try; every exception returns the argument
update_recommendations(a, current, provider) ==
    IF current.kind # "dict" THEN Ret(current)
    ELSE IF UpdatePromptRaises(current) THEN Ret(current)
    ELSE LET parsed == json_loads(generate_text(a, "json", provider))
             filled == FillFields(parsed.val, UpdateFields(current))
         IN  IF parsed.kind = "raise" THEN Ret(current)
             ELSE IF filled.kind = "raise" THEN Ret(current)
             ELSE filled

----------------------------------------------------------------------------
(* ChatAssistantAgent *)

ProcessVideoFirst == [c |-> "To answer your question about the video, I'll need to process a video first. ..."]
Apology == [c |-> "I apologize, but I encountered an error while processing your question: "]

\* the test for None alone
NoTranscriptNoneOnly(transcript) == transcript.kind = "none"

\* not transcript, for context.get('transcript', '')
NoTranscript(transcript) ==
    \/ transcript.kind = "none"
    \/ transcript.kind = "text" /\ transcript.text = <<>>

\* context holds transcript and video_info; the reply is a text
generate_response(a, transcript, video_info, provider) ==
    IF NoTranscript(transcript) THEN Ret(PyText(<<ProcessVideoFirst>>))
    ELSE IF GetRaises(video_info) THEN Raise("AttributeError")
    ELSE IF SliceRaises(transcript) THEN Raise("TypeError")
    ELSE Ret(PyText(generate_text(a, "text", provider)))

----------------------------------------------------------------------------
(* The requests the agents send to generate_text *)

\* a request: the parts of the prompt, the system prompt and the format
Request(prompt, system_prompt, response_format) ==
    [prompt |-> prompt, system_prompt |-> system_prompt, response_format |-> response_format]

\* a named piece of a prompt
Part(name) == [part |-> name]

\* chat_history[-5:]
LastTurns(chat_history) ==
    SubSeq(chat_history,
           IF Len(chat_history) > HistoryLimit THEN Len(chat_history) - HistoryLimit + 1 ELSE 1,
           Len(chat_history))

\* lines 33-37: role and content of the last five messages, with the
\* defaults of msg.get
formatted_messages(chat_history) ==
    LET last == LastTurns(chat_history)
    IN  [ i \in 1..Len(last) |->
            [ role |-> IF "role" \in DOMAIN last[i] THEN last[i].role ELSE "user",
              content |-> IF "content" \in DOMAIN last[i] THEN last[i].content ELSE <<>> ] ]

\* lines 79-86: the local list messages, which no call receives
messages(chat_history) ==
    <<[role |-> "system", content |-> "system_prompt"]>>
        \o formatted_messages(chat_history)
        \o <<[role |-> "user", content |-> "context_message User Question: user_query"]>>

\* lines 89-94: the one request of generate_response
chat_request ==
    Request(<<Part("context_message"), Part("User Question: "), Part("user_query")>>,
            "chat", "text")

\* the requests one call of an agent sends, in order
ClientRequests(call, transcript, video_info, current, chat_history) ==
    CASE call \in {"generate_summary", "generate_overview"} ->
            IF InvalidTranscript(transcript) THEN <<>>
            ELSE IF TooShort(transcript) \/ GetRaises(video_info) THEN <<>>
            ELSE <<Request(<<Part("user_prompt")>>, call, "json")>>
      [] call \in {"generate_quiz", "generate_flashcards"} ->
            IF GetRaises(video_info) \/ SliceRaises(transcript) THEN <<>>
            ELSE <<Request(<<Part("user_prompt")>>, call, "json")>>
      [] call = "generate_recommendations" ->
            <<Request(<<Part("user_prompt")>>, call, "json")>>
      [] call = "update_recommendations" ->
            IF current.kind # "dict" THEN <<>>
            ELSE IF UpdatePromptRaises(current) THEN <<>>
            ELSE <<Request(<<Part("user_prompt")>>, call, "json")>>
      [] OTHER ->
            IF NoTranscript(transcript) THEN <<>>
            ELSE IF GetRaises(video_info) \/ SliceRaises(transcript) THEN <<>>
            ELSE <<chat_request>>

----------------------------------------------------------------------------
(* Inputs of the transcript tiers *)

Pad(n) == Rep(Ws, n)

\* lengths around the threshold, and the short ones that reach it joined
BodyLens == {0, 1} \cup ((MinTranscriptLen - 2)..(MinTranscriptLen + MaxOver))

Texts ==
    { Pad(l) \o Rep(Ch, n) \o Pad(r) : l \in 0..MaxPad, r \in 0..MaxPad, n \in BodyLens }

Entry(text) == [has_text |-> TRUE, text |-> text]
NoTextEntry == [has_text |-> FALSE]

FirstEntries == {Entry(t) : t \in Texts}
MoreEntries == {Entry(<<>>), Entry(<<Ch>>), Entry(<<Ws>>), NoTextEntry}

RECURSIVE EntryLists(_)
EntryLists(n) ==
    IF n = 0 THEN {<<>>}
    ELSE IF n = 1 THEN {<<e>> : e \in FirstEntries \cup {NoTextEntry}}
    ELSE {l \o <<e>> : l \in EntryLists(n - 1), e \in MoreEntries}

\* what YouTubeTranscriptApi.get_transcript does
CaptionOutcomes ==
    {Raise("TranscriptsDisabled"), NoneVal}
        \cup {[kind |-> "list", entries |-> l] :
                 l \in UNION {EntryLists(n) : n \in 0..MaxEntries}}

\* what the provider would answer to a transcription request
AiOutcomes ==
    { Raise("ProviderError"), NoneVal, Ret(<<>>),
      Ret(Rep(Ch, MinTranscriptLen)), Ret(Rep(Ch, MinTranscriptLen + 1)),
      Ret(<<FailedToTranscribe>> \o Rep(Ch, MinTranscriptLen + 1)) }

\* what reading sample_transcript_clean.txt does
SampleOutcomes ==
    { Raise("FileNotFoundError"), Ret(<<>>), Ret(<<SampleFileText>>),
      Ret(<<Ws, SampleFileText, Ws>>) }

----------------------------------------------------------------------------
(* State *)

Idle == [op |-> "idle"]

\* initialize_session_state, the keys the modelled pages use
InitialSession ==
    [ ai_model |-> DefaultModel,
      processed_video_url |-> Ret([prefix |-> "", tail |-> <<>>]),
      video_info |-> NoneVal,
      transcript |-> NoneVal,
      video_overview |-> NoneVal,
      watched_videos |-> <<>>,
      user_progress |-> 0 ]

\* the process before any manager exists; the inputs of the pending call
InitTranscript ==
    /\ api_key \in BOOLEAN
    /\ adk = [inst |-> "none", model |-> "unset"]
    /\ ss = InitialSession
    /\ \E t1 \in CaptionOutcomes, ai \in AiOutcomes, sample \in SampleOutcomes :
          run = [ op |-> "pending", gemini_manager |-> "unbuilt",
                  t1 |-> t1, ai |-> ai, sample |-> sample ]

\* VideoProcessor(): a processor is built for the pending call; a page
\* builds a new one on every request
NewVideoProcessor ==
    /\ run.op = "pending"
    /\ LET vp == VideoProcessorInit(adk, api_key)
       IN  /\ adk' = vp.adk
           /\ run' = [run EXCEPT !.gemini_manager = vp.gemini_manager]
    /\ UNCHANGED <<api_key, ss>>

\* extract_transcript is called on the processor built last
CallExtractTranscript ==
    /\ run.op = "pending"
    /\ run.gemini_manager # "unbuilt"
    /\ run' = [ op |-> "extract_transcript",
                gemini_manager |-> run.gemini_manager,
                t1 |-> run.t1, ai |-> run.ai, sample |-> run.sample,
                out |-> extract_transcript(run.gemini_manager, run.t1, run.ai,
                                           run.sample) ]
    /\ UNCHANGED <<api_key, adk, ss>>

NextTranscript == NewVideoProcessor \/ CallExtractTranscript

SpecTranscript == InitTranscript /\ [][NextTranscript]_vars

----------------------------------------------------------------------------
(* extract_video_id, called on one URL *)

\* n identifier characters
IdRun(n) == [i \in 1..n |-> IdAlphabet[(i % 3) + 1]]

\* what follows the prefix: identifier characters, then nothing or a
\* character that ends the identifier; or a run broken in the middle
UrlTails ==
    { IdRun(n) \o rest : n \in {0, IdLen - 1} \cup (IdLen..(IdLen + MaxExtra)),
                         rest \in {<<>>, <<"&">>, <<"#">>} }
        \cup {SubSeq(IdRun(IdLen), 1, 4) \o <<"#">> \o SubSeq(IdRun(IdLen), 5, IdLen)}

Url(prefix, tail) == [prefix |-> prefix, tail |-> tail]

Urls == {Url(p, t) : p \in UrlPrefixes, t \in UrlTails}

InitVideoId ==
    /\ api_key \in BOOLEAN
    /\ adk = [inst |-> "none", model |-> "unset"]
    /\ ss = InitialSession
    /\ \E url \in Urls : run = [op |-> "pending", url |-> url, out |-> NoneVal]

CallExtractVideoId ==
    /\ run.op = "pending"
    /\ run' = [run EXCEPT !.op = "extract_video_id", !.out = extract_video_id(run.url)]
    /\ UNCHANGED <<api_key, adk, ss>>

NextVideoId == CallExtractVideoId

SpecVideoId == InitVideoId /\ [][NextVideoId]_vars

----------------------------------------------------------------------------
(* VideoProcessor.process_video and the Video Processing page *)

\* video_id.replace("_", " ").replace("-", " ")
title_from_id(video_id) ==
    [i \in 1..Len(video_id) |-> IF video_id[i] \in {"_", "-"} THEN " " ELSE video_id[i]]

\* get_video_info: the placeholder record built from the identifier
get_video_info(video_id) ==
    JDict([ id |-> JStr(video_id),
            title |-> JStr(<<"YouTube Video: ">> \o title_from_id(video_id)),
            channel |-> Lit("YouTube Channel"), duration |-> JNum ])

\* the video_info of an invalid URL
ErrorVideoInfo ==
    JDict([ id |-> Lit("error"), title |-> Lit("Error: Invalid URL"),
            channel |-> Lit("Error"), duration |-> JNum ])

\* process_video: (video_info, transcript) and the transcript sources tried
process_video(gemini_manager, url, t1, ai, sample) ==
    LET video_id == extract_video_id(url)
        t == extract_transcript(gemini_manager, t1, ai, sample)
    IN  IF video_id.kind = "raise"
        THEN [ video_info |-> ErrorVideoInfo,
               transcript |-> <<InvalidUrlPrefix, InvalidUrlMsg>>,
               calls |-> <<>> ]
        ELSE [ video_info |-> get_video_info(video_id.val),
               transcript |-> t.val,
               calls |-> t.calls ]

\* main, lines 127-130: the script takes the singleton and selects the
\* session's model before it shows a page; raised when the script died
MainPrelude(a, key, session) ==
    LET c == Construct(a, key)
    IN  IF c.raised THEN [adk |-> c.adk, raised |-> TRUE]
        ELSE [adk |-> [c.adk EXCEPT !.model = session.ai_model], raised |-> FALSE]

\* any(vid.get('url') == video_url for vid in watched_videos)
Watched(watched_videos, url) ==
    \E i \in 1..Len(watched_videos) : watched_videos[i].url = url

\* user_progress += 2 without the cap
BumpUncapped(p) == p + ProgressStep

\* user_progress += 2, capped at 100
BumpProgress(p) == IF p + ProgressStep > MaxProgress THEN MaxProgress ELSE p + ProgressStep

\* lines 255-297: the session after Process Video was clicked with a
\* non-empty URL
ProcessClicked(session, a, url, t1, ai, sample, provider) ==
    LET pv == process_video("manager", url, t1, ai, sample)
        entry == [ url |-> url, title |-> pv.video_info.d.title,
                   channel |-> pv.video_info.d.channel ]
        seen == Watched(session.watched_videos, url)
        overview == generate_overview(a, PyText(pv.transcript), pv.video_info, provider)
    IN  [ session EXCEPT
            !.processed_video_url = Ret(url),
            !.video_info = pv.video_info,
            !.transcript = PyText(pv.transcript),
            !.watched_videos = IF seen THEN @ ELSE Append(@, entry),
            !.user_progress = IF seen THEN @ ELSE BumpProgress(@),
            !.video_overview = overview.val ]

\* the URLs typed into the page
PageUrls ==
    { Url("", <<>>),
      Url("https://www.youtube.com/watch?v=", IdRun(IdLen)),
      Url("https://youtu.be/", IdRun(IdLen) \o <<"&">>),
      Url("https://vimeo.com/", IdRun(IdLen)),
      Url("https://www.youtube.com/watch?v=", IdRun(IdLen - 1)) }

PageCaptions ==
    { Raise("TranscriptsDisabled"),
      [kind |-> "list", entries |-> <<Entry(Rep(Ch, MinTranscriptLen + 1))>>] }

PageSamples == {Raise("FileNotFoundError"), Ret(<<SampleFileText>>)}

\* without an API key no call to the provider succeeds
PageProviders(key) ==
    IF key
    THEN {Raise("ProviderError"), Ret(<<Doc(OverviewOf(Lit("D"), "T"))>>), Ret(<<Prose>>)}
    ELSE {Raise("ProviderError")}

\* the progress a session starts with: 0, or what its settings held
ProgressStarts == {0} \cup ((MaxProgress - ProgressStep - 1)..MaxProgress)

InitVideo ==
    /\ api_key \in BOOLEAN
    /\ adk = [inst |-> "none", model |-> "unset"]
    /\ \E p \in ProgressStarts : ss = [InitialSession EXCEPT !.user_progress = p]
    /\ run = Idle

\* a script run on the Video Processing page with Process Video clicked
ProcessVideoClick ==
    \E url \in PageUrls, t1 \in PageCaptions, sample \in PageSamples,
       provider \in PageProviders(api_key) :
        LET m == MainPrelude(adk, api_key, ss)
            new == ProcessClicked(ss, m.adk, url, t1, Raise("ProviderError"), sample,
                                  provider)
            shown == ~m.raised /\ url # Url("", <<>>)
        IN  /\ Watched(ss.watched_videos, url) \/ Len(ss.watched_videos) < MaxWatched
            /\ adk' = m.adk
            /\ ss' = IF shown THEN new ELSE ss
            /\ run' = [ op |-> IF m.raised THEN "script_died"
                                ELSE IF shown THEN "processed" ELSE "shown",
                        url |-> url,
                        id |-> extract_video_id(url).kind,
                        calls |-> IF shown
                                  THEN process_video("manager", url, t1,
                                                     Raise("ProviderError"), sample).calls
                                  ELSE <<>>,
                        before |-> ss ]
            /\ UNCHANGED api_key

\* lines 329-337: a script run with Clear clicked
ClearClick ==
    LET m == MainPrelude(adk, api_key, ss)
    IN  /\ adk' = m.adk
        /\ ss' = IF m.raised THEN ss
                 ELSE [ ss EXCEPT !.processed_video_url = Ret(Url("", <<>>)),
                                  !.video_info = NoneVal,
                                  !.transcript = NoneVal,
                                  !.video_overview = NoneVal ]
        /\ run' = [op |-> IF m.raised THEN "script_died" ELSE "cleared"]
        /\ UNCHANGED api_key

NextVideo == ProcessVideoClick \/ ClearClick

SpecVideo == InitVideo /\ [][NextVideo]_vars

----------------------------------------------------------------------------
(* Claims about extract_transcript, under SpecTranscript *)

Extracted == run.op = "extract_transcript"

\* the text tier 1 built from the captions, when the adapter returned one
HasCaptionText(t1) ==
    /\ t1.kind = "list"
    /\ t1.entries # <<>>
    /\ \A i \in 1..Len(t1.entries) : t1.entries[i].has_text

CaptionText(t1) == Join([i \in 1..Len(t1.entries) |-> t1.entries[i].text])

TrimmedLen(text) == StrLen(Strip(text))

\* tier 1 gives no usable text: it raises, returns nothing, or 50 or fewer
\* trimmed characters
Tier1Unusable(t1) ==
    HasCaptionText(t1) => TrimmedLen(CaptionText(t1)) <= MinTranscriptLen

\* the provider's transcription is usable: more than 50 trimmed characters
\* and no error string
AiUsable(ai) ==
    /\ ai.kind = "ret"
    /\ TrimmedLen(ai.val) > MinTranscriptLen
    /\ ~StartsWith(ai.val, FailedToTranscribe)

\* C1: for every combination of outcomes of the captions adapter, the AI
\* transcription and the sample-file read, extract_transcript returns a
\* non-empty text and does not raise.
C1_NeverRaisesNonEmpty ==
    Extracted => run.out.kind = "ret" /\ StrLen(run.out.val) > 0

\* the three sources all failed by raising, and a text came back
C1_Witness ==
    /\ Extracted
    /\ run.t1.kind = "raise"
    /\ run.gemini_manager = "manager"
    /\ run.ai.kind = "raise"
    /\ run.sample.kind = "raise"
    /\ run.out.kind = "ret"

\* C2: when the captions adapter returns text of more than 50 trimmed
\* characters, extract_transcript returns exactly that text, without the
\* demo-mode notice, and tries neither the AI transcription nor the sample.
C2_CaptionsWin ==
    (Extracted /\ HasCaptionText(run.t1)
        /\ TrimmedLen(CaptionText(run.t1)) > MinTranscriptLen)
    => /\ run.out.val = CaptionText(run.t1)
       /\ ~StartsWith(run.out.val, DemoNotice)
       /\ run.out.calls = <<"captions">>

\* captions of exactly 51 trimmed characters, padded, were returned
C2_Witness ==
    /\ Extracted
    /\ HasCaptionText(run.t1)
    /\ TrimmedLen(CaptionText(run.t1)) = MinTranscriptLen + 1
    /\ StrLen(CaptionText(run.t1)) > MinTranscriptLen + 1
    /\ run.out.val = CaptionText(run.t1)

\* C3: when tier 1 fails or is insufficient and the AI transcription gives
\* more than 50 trimmed characters that are no error string,
\* extract_transcript returns the AI text and does not load the sample.
C3_AiTextReturned ==
    (Extracted /\ Tier1Unusable(run.t1) /\ run.gemini_manager = "manager"
        /\ AiUsable(run.ai))
    => /\ run.out.val = run.ai.val
       /\ \A i \in 1..Len(run.out.calls) : run.out.calls[i] # "sample"

\* C4: when neither tier 1 nor tier 2 yields usable text, extract_transcript
\* returns the sample transcript: non-empty and beginning with the
\* demo-mode notice.
C4_SampleFallback ==
    (Extracted /\ Tier1Unusable(run.t1)
        /\ (run.gemini_manager = "None" \/ ~AiUsable(transcribe_youtube_video(run.ai))))
    => /\ run.out.kind = "ret"
       /\ StrLen(run.out.val) > 0
       /\ StartsWith(run.out.val, DemoNotice)
       /\ run.out.val = <<DemoNotice>> \o load_sample_transcript(run.sample)
       /\ run.out.calls[Len(run.out.calls)] = "sample"

\* captions of exactly 50 trimmed characters fell through to the sample
C4_Witness ==
    /\ Extracted
    /\ HasCaptionText(run.t1)
    /\ TrimmedLen(CaptionText(run.t1)) = MinTranscriptLen
    /\ StartsWith(run.out.val, DemoNotice)

----------------------------------------------------------------------------
(* Inputs of the agents *)

TranscriptArgs ==
    { NoneVal, PyNum, PyText(<<>>), PyText(Rep(Ws, 2)),
      PyText(Rep(Ch, MinTranscriptLen - 1)), PyText(Rep(Ch, MinTranscriptLen)),
      PyText(<<Ws>> \o Rep(Ch, MinTranscriptLen + 1) \o <<Ws>>) }

VideoInfoArgs ==
    { NoneVal, EmptyDict,
      JDict([title |-> Lit("YouTube Video: x"), channel |-> Lit("YouTube Channel")]) }

SeqsUpTo(S, n) == UNION {[1..k -> S] : k \in 0..n}

\* a dict with the keys of present, each with the value of value
DictOver(present, value) == JDict([k \in present |-> value[k]])

QuizItemPool ==
    { sample_questions[1],
      \* no options
      JDict([ question |-> Lit("Q?"), correct_answer |-> Lit("A"),
              correct_feedback |-> Lit("Yes"), incorrect_feedback |-> Lit("No") ]),
      \* three options
      Question("Q?", <<"A", "B", "C">>, "A", "Yes", "No"),
      \* an answer that is no option
      Question("Q?", <<"A", "B", "C", "D">>, "E", "Yes", "No"),
      \* strings and a list that name the keys
      JStr(<<"question", "options", "correct_answer", "incorrect_feedback">>),
      JStr(<<"question">>),
      LitList(QuizKeys),
      JNum }

FlashcardItemPool ==
    { sample_flashcards[1], JDict([front |-> Lit("F")]), JStr(<<"front", "back">>),
      LitList(<<"front">>), JNull }

\* the documents a reply to an item request may hold
ItemDocs(pool, wrapper) ==
    LET lists == {JList(l) : l \in SeqsUpTo(pool, MaxItems)}
    IN  lists
        \cup {JDict([k \in {wrapper} |-> l]) : l \in lists}
        \cup { EmptyDict, JNum, JNull, Lit(wrapper), LitList(<<wrapper>>),
               JDict([k \in {wrapper} |-> Lit("none")]) }

\* each field absent, null, empty or filled
FieldValues == {JNull, JList(<<>>), LitList(<<"x">>)}

ObjectDocs(keys) ==
    UNION { {JDict(d) : d \in [present -> FieldValues]} : present \in SUBSET keys }
        \cup {JNum, JList(<<>>), LitList(<<"summary_text">>), Lit("description")}

SummaryDocs == ObjectDocs({"summary_text", "key_points", "topics"})
OverviewDocs ==
    ObjectDocs({"description", "primary_topic", "target_audience", "content_type"})
PathDocs ==
    { JDict([k \in present |-> IF k \in empty THEN JList(<<>>) ELSE LitList(<<"new", k>>)]) :
        present \in SUBSET {PathKeys[i] : i \in 1..Len(PathKeys)},
        empty \in SUBSET {"next_steps", "additional_resources"} }
        \cup {JNum, JList(<<>>)}

\* the value a stored path holds under key k
OldValue(k) ==
    CASE k = "recommended_videos" -> JList(<<JDict([title |-> Lit("old video")])>>)
      [] k = "milestones" -> JList(<<JDict([name |-> Lit("A"), progress |-> JNum])>>)
      [] OTHER -> LitList(<<"old", k>>)

CurrentPaths ==
    { NoneVal, EmptyDict,
      JDict([k \in {PathKeys[i] : i \in 1..Len(PathKeys)} |-> OldValue(k)]),
      JDict([k \in {"next_steps", "milestones"} |-> OldValue(k)]),
      \* videos that are titles, not records
      JDict([k \in {"next_steps", "recommended_videos"} |-> LitList(<<"old", k>>)]) }

\* the ways a reply wraps one document, and replies that hold none
Wrappings(doc) ==
    { <<Doc(doc)>>,
      <<Ws, Doc(doc), Ws>>,
      <<Fence, JsonTag, Ws, Doc(doc), Ws, Fence>>,
      <<Fence, Ws, Doc(doc), Ws, Fence>>,
      <<Fence, OtherTag, Ws, Doc(doc), Ws, Fence>>,
      <<Prose, Ws, Fence, JsonTag, Ws, Doc(doc), Ws, Fence>>,
      <<Prose, Ws, Fence, Ws, Doc(doc), Ws, Fence, Ws, Prose>>,
      <<Fence, Ws, Doc(doc)>> }

UnparsableReplies == {<<>>, <<Prose>>, <<Doc(JNum), Doc(JNum)>>}

ProviderErrors == {Raise("ProviderError"), Raise("QuotedProviderError")}

\* what the provider does with a JSON request: docs are the documents it
\* may send bare, wrapped is one it sends in every wrapping
JsonOutcomes(docs, wrapped) ==
    ProviderErrors
        \cup {Ret(<<Doc(d)>>) : d \in docs}
        \cup {Ret(t) : t \in Wrappings(wrapped) \cup UnparsableReplies}

TextOutcomes == ProviderErrors \cup {Ret(<<Prose>>), Ret(<<>>)}

AgentCalls ==
    { "generate_summary", "generate_overview", "generate_quiz", "generate_flashcards",
      "generate_recommendations", "update_recommendations", "generate_response" }

OutcomesFor(call) ==
    CASE call = "generate_summary" ->
            JsonOutcomes(SummaryDocs, SummaryOf(Lit("S"), LitList(<<"p">>), LitList(<<"t">>)))
      [] call = "generate_overview" -> JsonOutcomes(OverviewDocs, OverviewOf(Lit("D"), "T"))
      [] call = "generate_quiz" ->
            JsonOutcomes(ItemDocs(QuizItemPool, "questions"), JList(sample_questions))
      [] call = "generate_flashcards" ->
            JsonOutcomes(ItemDocs(FlashcardItemPool, "flashcards"), JList(sample_flashcards))
      [] call = "generate_response" -> TextOutcomes
      [] OTHER -> JsonOutcomes(PathDocs, FallbackRecommendations)

\* the arguments a call does not take are None
TranscriptsFor(call) ==
    IF call \in {"generate_recommendations", "update_recommendations"}
    THEN {NoneVal} ELSE TranscriptArgs

VideoInfosFor(call) ==
    IF call \in {"generate_recommendations", "update_recommendations"}
    THEN {NoneVal} ELSE VideoInfoArgs

CountsFor(call) ==
    IF call \in {"generate_quiz", "generate_flashcards"} THEN 0..MaxCount ELSE {0}

CurrentsFor(call) == IF call = "update_recommendations" THEN CurrentPaths ELSE {NoneVal}

\* turn i of a conversation: the user and the assistant alternate
Turn(i) == [role |-> IF i % 2 = 1 THEN "user" ELSE "assistant", content |-> <<"turn", i>>]

\* st.session_state.chat_messages[:-1]: the turns before the question
Histories == {[i \in 1..n |-> Turn(i)] : n \in 0..(HistoryLimit + MaxHistoryOver)}

HistoriesFor(call) == IF call = "generate_response" THEN Histories ELSE {<<>>}

----------------------------------------------------------------------------
(* The agents, called one at a time *)

InitAgents ==
    /\ api_key \in BOOLEAN
    /\ adk = [inst |-> "none", model |-> "unset"]
    /\ ss = InitialSession
    /\ \E call \in AgentCalls :
        \E transcript \in TranscriptsFor(call), video_info \in VideoInfosFor(call),
           num \in CountsFor(call), current \in CurrentsFor(call),
           provider \in OutcomesFor(call), chat_history \in HistoriesFor(call) :
              run = [ op |-> "pending", call |-> call, agent |-> "unbuilt",
                      transcript |-> transcript, video_info |-> video_info,
                      num |-> num, current |-> current, provider |-> provider,
                      chat_history |-> chat_history,
                      out |-> NoneVal, requests |-> <<>> ]

\* SummarizerAgent(), QuizAgent(), ...: __init__ takes the singleton; the
\* agent exists when the construction did not raise
NewAgent ==
    /\ run.op = "pending"
    /\ run.agent = "unbuilt"
    /\ LET c == Construct(adk, api_key)
       IN  /\ adk' = c.adk
           /\ run' = [run EXCEPT !.agent = IF c.raised THEN "unbuilt" ELSE "built"]
    /\ UNCHANGED <<api_key, ss>>

Called(call, out) ==
    /\ run.op = "pending"
    /\ run.call = call
    /\ run.agent = "built"
    /\ run' = [ run EXCEPT
                  !.op = "returned",
                  !.out = out,
                  !.requests = ClientRequests(call, run.transcript, run.video_info,
                                              run.current, run.chat_history) ]
    /\ UNCHANGED <<api_key, adk, ss>>

CallGenerateSummary ==
    Called("generate_summary",
           generate_summary(adk, run.transcript, run.video_info, run.provider))

CallGenerateOverview ==
    Called("generate_overview",
           generate_overview(adk, run.transcript, run.video_info, run.provider))

CallGenerateQuiz ==
    Called("generate_quiz",
           generate_quiz(adk, run.transcript, run.video_info, run.num, run.provider))

CallGenerateFlashcards ==
    Called("generate_flashcards",
           generate_flashcards(adk, run.transcript, run.video_info, run.num, run.provider))

CallGenerateRecommendations ==
    Called("generate_recommendations", generate_recommendations(adk, run.provider))

CallUpdateRecommendations ==
    Called("update_recommendations",
           update_recommendations(adk, run.current, run.provider))

CallGenerateResponse ==
    Called("generate_response",
           generate_response(adk, run.transcript, run.video_info, run.provider))

NextAgents ==
    \/ NewAgent
    \/ CallGenerateSummary
    \/ CallGenerateOverview
    \/ CallGenerateQuiz
    \/ CallGenerateFlashcards
    \/ CallGenerateRecommendations
    \/ CallUpdateRecommendations
    \/ CallGenerateResponse

SpecAgents == InitAgents /\ [][NextAgents]_vars

----------------------------------------------------------------------------
(* Claims about extract_video_id, under SpecVideoId *)

\* the URL shapes the specification names
KnownShape(url) ==
    url.prefix \in { "https://www.youtube.com/watch?v=", "https://youtu.be/",
                     "https://www.youtube.com/embed/", "https://www.youtube.com/v/" }

\* the identifier part of a URL: the identifier characters after the prefix
RECURSIVE IdPart(_)
IdPart(tail) ==
    IF tail # <<>> /\ Head(tail) \in IdChars THEN <<Head(tail)>> \o IdPart(Tail(tail))
    ELSE <<>>

\* C5: extract_video_id returns the 11-character identifier for every URL
\* of a known shape and raises the invalid-URL error for every other
\* string, also when the identifier part is not exactly 11 characters long.
C5_IdOrInvalid ==
    run.op = "extract_video_id"
    => IF KnownShape(run.url) /\ Len(IdPart(run.url.tail)) = IdLen
       THEN run.out = Ret(IdPart(run.url.tail))
       ELSE run.out = Raise("ValueError")

----------------------------------------------------------------------------
(* Claims about the Video Processing page, under SpecVideo *)

\* C6: a processing request whose URL yields no identifier is rejected: no
\* transcript tier is tried, no transcript is stored, the URL is not added
\* to watched_videos and user_progress does not grow.
C6_InvalidUrlRejected ==
    (run.op = "processed" /\ run.id = "raise")
    => /\ run.calls = <<>>
       /\ ss.transcript = run.before.transcript
       /\ ss.watched_videos = run.before.watched_videos
       /\ ss.user_progress = run.before.user_progress

----------------------------------------------------------------------------
(* Claims about the agents, under SpecAgents *)

Returned == run.op = "returned"

\* the call gets as far as its request to the text generation client
ReachesProvider ==
    IF run.call = "generate_recommendations" THEN TRUE
    ELSE IF run.call = "update_recommendations" THEN run.current.kind = "dict"
    ELSE /\ run.transcript.kind = "text"
         /\ TrimmedLen(run.transcript.text) >= MinTranscriptLen
         /\ run.video_info.kind = "dict"

\* the artifact of the agent's except clause, for exception e
CannedFallback(call, e) ==
    CASE call = "generate_summary" -> SummaryError(e)
      [] call = "generate_overview" -> OverviewError(e)
      [] call = "generate_quiz" -> JList(CycleSamples(sample_questions, run.num))
      [] call = "generate_flashcards" -> JList(CycleSamples(sample_flashcards, run.num))
      [] call = "generate_recommendations" -> FallbackRecommendations
      [] call = "update_recommendations" -> run.current
      [] OTHER -> PyText(<<Apology, ExcText(e)>>)

\* C7: when the provider call inside generate_text fails, every agent
\* returns its own canned fallback artifact and no exception reaches the
\* caller.
C7_ProviderFailureFallback ==
    (Returned /\ ReachesProvider /\ adk.model # "unset" /\ run.provider.kind = "raise")
    => run.out = Ret(CannedFallback(run.call, run.provider.exc))

\* C8: every agent operation returns an artifact and never raises, for any
\* transcript value, a None video_info and any provider response.
C8_AgentsNeverRaise == Returned => run.out.kind = "ret"

\* the reply as the agent parses it
ParsedReply == json_loads(generate_text(adk, "json", run.provider))

HasKeys(item, keys) ==
    item.kind = "dict" /\ \A i \in 1..Len(keys) : keys[i] \in DOMAIN item.d

\* C9: for every provider response that parses to a list, generate_quiz
\* returns at most num_questions items, each with all five required keys,
\* and generate_flashcards at most num_cards items, each with front and
\* back.
C9_ItemsComplete ==
    (Returned /\ ReachesProvider /\ run.call \in {"generate_quiz", "generate_flashcards"}
        /\ ParsedReply.kind = "ret" /\ ParsedReply.val.kind = "list")
    => /\ run.out.kind = "ret"
       /\ Len(run.out.val.items) <= run.num
       /\ \A i \in 1..Len(run.out.val.items) :
             HasKeys(run.out.val.items[i],
                     IF run.call = "generate_quiz" THEN QuizKeys ELSE FlashcardKeys)

\* four options, and the answer one of them
WellFormedQuestion(item) ==
    /\ HasKeys(item, <<"options", "correct_answer">>)
    /\ item.d.options.kind = "list"
    /\ Len(item.d.options.items) = NumOptions
    /\ \E i \in 1..Len(item.d.options.items) :
          item.d.options.items[i] = item.d.correct_answer

\* C10: every question generate_quiz returns, on the normal path and on
\* the fallback path, has exactly four options and a correct_answer that
\* is one of them.
C10_FourOptions ==
    (Returned /\ run.call = "generate_quiz" /\ run.out.kind = "ret")
    => \A i \in 1..Len(run.out.val.items) : WellFormedQuestion(run.out.val.items[i])

----------------------------------------------------------------------------
(* Claims about the fallback lists, under SpecAgents *)

\* the except clause of generate_quiz or generate_flashcards ran
TookItemFallback ==
    /\ Returned
    /\ run.call \in {"generate_quiz", "generate_flashcards"}
    /\ run.video_info.kind = "dict"
    /\ run.transcript.kind = "text"
    /\ ItemsFromReply(generate_text(adk, "json", run.provider),
                      IF run.call = "generate_quiz" THEN "questions" ELSE "flashcards",
                      IF run.call = "generate_quiz" THEN QuizKeys ELSE FlashcardKeys,
                      run.num).kind = "raise"

SamplesOf(call) == IF call = "generate_quiz" THEN sample_questions ELSE sample_flashcards

\* C11: on the fallback path generate_flashcards and generate_quiz return
\* exactly the requested number of items, for every count >= 0, and item i
\* is the sample at position i counted cyclically.
C11_FallbackCycles ==
    TookItemFallback
    => /\ run.out.kind = "ret"
       /\ run.out.val.kind = "list"
       /\ Len(run.out.val.items) = run.num
       /\ \A i \in 1..run.num :
             run.out.val.items[i]
                 = SamplesOf(run.call)[((i - 1) % Len(SamplesOf(run.call))) + 1]

\* more flashcards were asked for than there are samples, and the first
\* sample came back again after the last
C11_Witness ==
    /\ TookItemFallback
    /\ run.call = "generate_flashcards"
    /\ run.num > Len(sample_flashcards)
    /\ run.out.val.items[Len(sample_flashcards) + 1] = sample_flashcards[1]

----------------------------------------------------------------------------
(* Claims about required fields, under SpecAgents *)

\* the provider's reply as generate_summary or generate_recommendations
\* parses it
ObjectReply ==
    IF run.call = "generate_summary"
    THEN json_loads(SummaryClean(generate_text(adk, "json", run.provider)))
    ELSE json_loads(generate_text(adk, "json", run.provider))

RequiredFields(call) ==
    IF call = "generate_summary" THEN <<"summary_text", "key_points", "topics">>
    ELSE PathKeys

\* C12: after a provider response that parses as a JSON object, every
\* required field of the artifact generate_summary or
\* generate_recommendations returns is present and non-empty.
C12_RequiredFieldsFilled ==
    (Returned /\ run.call \in {"generate_summary", "generate_recommendations"}
        /\ ReachesProvider /\ run.provider.kind = "ret"
        /\ ObjectReply.kind = "ret" /\ ObjectReply.val.kind = "dict")
    => /\ run.out.kind = "ret"
       /\ run.out.val.kind = "dict"
       /\ \A i \in 1..Len(RequiredFields(run.call)) :
             /\ RequiredFields(run.call)[i] \in DOMAIN run.out.val.d
             /\ Truthy(run.out.val.d[RequiredFields(run.call)[i]])

----------------------------------------------------------------------------
(* Claims about update_recommendations, under SpecAgents *)

\* the reply update_recommendations parsed, when it got that far
UpdateReply == json_loads(generate_text(adk, "json", run.provider))

\* the update reached the provider and the reply parsed to an object
UpdateMerged ==
    /\ Returned
    /\ run.call = "update_recommendations"
    /\ run.current.kind = "dict"
    /\ ~UpdatePromptRaises(run.current)
    /\ run.provider.kind = "ret"
    /\ UpdateReply.kind = "ret"
    /\ UpdateReply.val.kind = "dict"

\* C13: update_recommendations keeps every field of the current path that
\* the reply omits, with its prior value, and takes the fields the reply
\* supplies from the reply.
C13_OmittedFieldsPreserved ==
    UpdateMerged
    => /\ run.out.kind = "ret"
       /\ run.out.val.kind = "dict"
       /\ \A i \in 1..Len(PathKeys) :
             LET k == PathKeys[i]
             IN  IF k \in DOMAIN UpdateReply.val.d
                 THEN k \in DOMAIN run.out.val.d
                      /\ run.out.val.d[k] = UpdateReply.val.d[k]
                 ELSE k \in DOMAIN run.current.d
                      => k \in DOMAIN run.out.val.d
                         /\ run.out.val.d[k] = run.current.d[k]

----------------------------------------------------------------------------
(* Claims about the requests of the agents, under SpecAgents *)

\* C14: generate_summary with an empty transcript returns exactly the
\* Invalid transcript format payload, all three fields present, and sends
\* no request to the text generation client.
C14_EmptyTranscriptPayload ==
    (Returned /\ run.call = "generate_summary" /\ run.transcript = PyText(<<>>))
    => /\ run.out
            = Ret(JDict([ summary_text |->
                              Lit("Unable to generate summary: Invalid transcript format."),
                          key_points |->
                              LitList(<<"Invalid transcript data",
                                        "Please ensure the video has captions available">>),
                          topics |-> LitList(<<"Error: Invalid Input">>) ]))
       /\ run.requests = <<>>

\* an empty transcript, no video_info, and a provider that would answer
C14_Witness ==
    /\ Returned
    /\ run.call = "generate_summary"
    /\ run.transcript = PyText(<<>>)
    /\ run.video_info = NoneVal
    /\ run.provider.kind = "ret"
    /\ run.out.kind = "ret"

\* the turns are in the prompt of the request, next to each other, in order
Carries(request, turns) ==
    \E k \in 0..Len(request.prompt) :
        \A i \in 1..Len(turns) :
            k + i <= Len(request.prompt) /\ request.prompt[k + i] = turns[i]

\* C15: with a transcript present, the request generate_response sends
\* carries the previous turns of chat_history, the last five at most, in
\* order, as role/content pairs.
C15_HistoryInRequest ==
    (Returned /\ run.call = "generate_response" /\ ~NoTranscript(run.transcript)
        /\ run.out.kind = "ret")
    => /\ Len(run.requests) = 1
       /\ Carries(run.requests[1], formatted_messages(run.chat_history))

\* C16: generate_response with an absent or empty transcript returns the
\* fixed reply that asks to process a video first, and sends no request to
\* the text generation client.
C16_NoTranscriptShortCircuit ==
    (Returned /\ run.call = "generate_response"
        /\ (run.transcript = NoneVal \/ run.transcript = PyText(<<>>)))
    => /\ run.out = Ret(PyText(<<ProcessVideoFirst>>))
       /\ run.requests = <<>>

\* an empty transcript, a conversation under way, a provider that would
\* answer
C16_Witness ==
    /\ Returned
    /\ run.call = "generate_response"
    /\ run.transcript = PyText(<<>>)
    /\ run.chat_history # <<>>
    /\ run.provider.kind = "ret"
    /\ run.out = Ret(PyText(<<ProcessVideoFirst>>))

----------------------------------------------------------------------------
(* The manager, shared by every holder of a reference *)

\* model_options of the sidebar
ModelNames == {"gemini-1.5-flash", "gemini-1.5-pro", "gemini-pro"}

\* the manager is left as it is
set_model_kept(a, model_name) == a

\* set_model: self._model_name = model_name
set_model(a, model_name) == [a EXCEPT !.model = model_name]

\* line 65: the model generate_text asks for; reading self._model_name
\* raises AttributeError on an instance _initialize did not complete
ModelUsed(a) == IF a.model = "unset" THEN "AttributeError" ELSE a.model

InitManager ==
    /\ api_key \in BOOLEAN
    /\ adk = [inst |-> "none", model |-> "unset"]
    /\ ss = InitialSession
    /\ run = [ op |-> "idle", refs |-> 0, selected |-> "none", rebuilt |-> FALSE,
               calls |-> 0, used |-> "none" ]

\* GoogleADKManager() somewhere in the process: an agent, a processor, a
\* script run.  The caller holds a reference when the call did not raise.
ConstructManager ==
    /\ run.refs < MaxRefs
    /\ LET c == Construct(adk, api_key)
       IN  /\ adk' = c.adk
           /\ run' = [ run EXCEPT
                         !.op = IF c.raised THEN "construct_raised" ELSE "constructed",
                         !.refs = IF c.raised THEN @ ELSE @ + 1,
                         !.rebuilt = IF c.raised THEN @ ELSE run.selected # "none" ]
    /\ UNCHANGED <<api_key, ss>>

\* set_model(m) through a reference
SetModel ==
    /\ run.refs > 0
    /\ \E m \in ModelNames :
          /\ adk' = set_model(adk, m)
          /\ run' = [ run EXCEPT !.op = "set_model", !.selected = m, !.rebuilt = FALSE,
                                 !.calls = 0, !.used = "none" ]
    /\ UNCHANGED <<api_key, ss>>

\* generate_text through a reference
ManagerGenerateText ==
    /\ run.refs > 0
    /\ run.calls < MaxCalls
    /\ run' = [ run EXCEPT !.op = "generate_text", !.calls = @ + 1,
                           !.used = ModelUsed(adk) ]
    /\ UNCHANGED <<api_key, adk, ss>>

\* a holder drops its reference
DropReference ==
    /\ run.refs > 0
    /\ run' = [run EXCEPT !.op = "dropped", !.refs = @ - 1]
    /\ UNCHANGED <<api_key, adk, ss>>

NextManager == ConstructManager \/ SetModel \/ ManagerGenerateText \/ DropReference

SpecManager == InitManager /\ [][NextManager]_vars

\* C17: after set_model(m) every generate_text call uses m until the next
\* set_model; constructing GoogleADKManager again gives the same instance
\* and does not reset the selected model.
C17_SelectedModelUsed ==
    run.selected # "none"
    => /\ adk.model = run.selected
       /\ run.used \in {"none", run.selected}
       /\ adk.inst # "none"

\* a model other than the default was selected, the manager was constructed
\* again, and the second generate_text after that used the selected model
C17_Witness ==
    /\ run.op = "generate_text"
    /\ run.selected = "gemini-1.5-pro"
    /\ run.rebuilt
    /\ run.calls = MaxCalls
    /\ run.used = "gemini-1.5-pro"

----------------------------------------------------------------------------
(* generate_text, called on one reply *)

\* a reply that holds one fenced block: the text before it, the language
\* tag, the block's content and the text after it
Fenced(before, tag, inner, after) ==
    [before |-> before, tag |-> tag, inner |-> inner, after |-> after]

\* the reply as the provider sends it
ReplyText(reply) ==
    reply.before \o <<Fence>> \o reply.tag \o reply.inner \o <<Fence>> \o reply.after

FencedReplies ==
    { Fenced(before, tag, Pad(l) \o body \o Pad(r), after) :
        before \in {<<>>, <<Prose, Ws>>},
        tag \in {<<>>, <<JsonTag>>, <<OtherTag>>},
        l \in 1..(MaxPad + 1), r \in 0..MaxPad,
        body \in {<<Doc(EmptyDict)>>, <<Doc(JList(<<>>))>>, <<Doc(JNum), Ws, Doc(JNum)>>},
        after \in {<<>>, <<Ws, Prose>>} }

InitGenerate ==
    /\ api_key \in BOOLEAN
    /\ adk = [inst |-> "none", model |-> "unset"]
    /\ ss = InitialSession
    /\ \E reply \in FencedReplies, response_format \in {"json", "text"},
          fails \in BOOLEAN :
          run = [ op |-> "pending", reply |-> reply, response_format |-> response_format,
                  provider |-> IF fails THEN Raise("ProviderError")
                               ELSE Ret(ReplyText(reply)),
                  out |-> <<>> ]

\* GoogleADKManager(): the caller has the manager when an instance exists
\* after the call
NewManager ==
    /\ run.op = "pending"
    /\ adk.inst # "ready"
    /\ adk' = Construct(adk, api_key).adk
    /\ UNCHANGED <<api_key, ss, run>>

CallGenerateText ==
    /\ run.op = "pending"
    /\ adk.inst # "none"
    /\ run' = [ run EXCEPT !.op = "generate_text",
                           !.out = generate_text(adk, run.response_format, run.provider) ]
    /\ UNCHANGED <<api_key, adk, ss>>

NextGenerate == NewManager \/ CallGenerateText

SpecGenerate == InitGenerate /\ [][NextGenerate]_vars

\* C18: for a JSON request, a reply wrapped in fences, whatever its
\* language tag, comes back from generate_text as exactly the content of
\* the block with the surrounding whitespace trimmed.
C18_FencedReplyCleaned ==
    (run.op = "generate_text" /\ run.response_format = "json"
        /\ run.provider.kind = "ret" /\ adk.model # "unset")
    => run.out = Strip(run.reply.inner)

----------------------------------------------------------------------------
(* UserSettings and ResetManager: settings files and reset markers *)

\* a JSON true or false
JBool(b) == [kind |-> "bool", b |-> b]

\* bool(x) of a settings value
SettingTruthy(x) == IF x.kind = "bool" THEN x.b ELSE Truthy(x)

\* key in d, d[key] = value and d.update(e) on settings and session state
Has(d, key) == key \in DOMAIN d
Put(d, key, value) == [k \in DOMAIN d \cup {key} |-> IF k = key THEN value ELSE d[k]]
Update(d, e) == [k \in DOMAIN d \cup DOMAIN e |-> IF k \in DOMAIN e THEN e[k] ELSE d[k]]
Without(d, keys) == [k \in DOMAIN d \ keys |-> d[k]]

\* email.replace('@', '_at_').replace('.', '_dot_'), an email being the
\* sequence of its characters and of the pieces _at_ and _dot_
Sanitize(email) ==
    [ i \in 1..Len(email) |->
        IF email[i] = "@" THEN "_at_" ELSE IF email[i] = "." THEN "_dot_" ELSE email[i] ]

\* self.default_settings, the keys the model follows
DefaultSettings ==
    [ user_email |-> JStr(<<>>), font_size |-> Lit("Medium"),
      is_iap_authenticated |-> JBool(FALSE),
      learning_path |-> EmptyDict, learning_recommendations |-> EmptyDict ]

\* learning_preference_keys, in the order of the list
learning_preference_keys == <<"learning_recommendations", "learning_path">>

\* for key in learning_preference_keys: if key in st.session_state: the
\* session's value goes into settings, None as the empty default
RECURSIVE PreserveFromSession(_, _, _)
PreserveFromSession(settings, session, keys) ==
    IF keys = <<>> THEN settings
    ELSE LET k == Head(keys)
             next == IF Has(session, k)
                     THEN Put(settings, k, IF session[k] = JNull THEN EmptyDict
                                           ELSE session[k])
                     ELSE settings
         IN  PreserveFromSession(next, session, Tail(keys))

\* both keys of settings and of the session take value v
BothPaths(settings, session, v) ==
    [ settings |-> Put(Put(settings, "learning_recommendations", v), "learning_path", v),
      session |-> Put(Put(session, "learning_recommendations", v), "learning_path", v) ]

NotNull(v) == IF v = JNull THEN EmptyDict ELSE v

\* save_settings, lines 95-121: the two keys are made equal from settings
SyncSettings(settings, session) ==
    IF Has(settings, "learning_recommendations")
    THEN BothPaths(settings, session, NotNull(settings.learning_recommendations))
    ELSE IF Has(settings, "learning_path")
    THEN BothPaths(settings, session, NotNull(settings.learning_path))
    ELSE BothPaths(settings, session, EmptyDict)

\* save_settings: the session, the files and the value returned
save_settings(session, files, settings) ==
    LET s1 == Update(session, settings)
        kept == PreserveFromSession(settings, s1, learning_preference_keys)
        synced == SyncSettings(kept, s1)
        email == IF Has(synced.settings, "user_email") THEN synced.settings.user_email
                 ELSE JStr(<<>>)
    IN  IF email.kind = "str" /\ email.words # <<>>
        THEN [ session |-> synced.session,
               files |-> Put(files, Sanitize(email.words), synced.settings),
               out |-> TRUE ]
        ELSE [session |-> synced.session, files |-> files, out |-> FALSE]

\* save_learning_preferences, lines 430-434: a non-empty value of the file
\* goes to the session when the session lacks the key
RECURSIVE RestoreToSession(_, _, _)
RestoreToSession(session, settings, keys) ==
    IF keys = <<>> THEN session
    ELSE LET k == Head(keys)
             next == IF Has(settings, k) /\ SettingTruthy(settings[k]) /\ ~Has(session, k)
                     THEN Put(session, k, settings[k])
                     ELSE session
         IN  RestoreToSession(next, settings, Tail(keys))

\* the synchronization left out
SyncPreferencesNone(settings, session) == [settings |-> settings, session |-> session]

\* save_learning_preferences, lines 463-478: the two keys are made equal
\* from the session
SyncPreferences(settings, session) ==
    IF Has(session, "learning_recommendations")
    THEN BothPaths(settings, session, NotNull(session.learning_recommendations))
    ELSE IF Has(session, "learning_path")
    THEN BothPaths(settings, session, NotNull(session.learning_path))
    ELSE [settings |-> settings, session |-> session]

save_learning_preferences(session, files, email) ==
    IF email = <<>> THEN [session |-> session, files |-> files, out |-> FALSE]
    ELSE LET name == Sanitize(email)
             loaded == IF Has(files, name) THEN files[name]
                       ELSE Put(DefaultSettings, "user_email", JStr(email))
             s1 == RestoreToSession(session, loaded, learning_preference_keys)
             kept == PreserveFromSession(loaded, s1, learning_preference_keys)
             synced == SyncPreferences(kept, s1)
         IN  [ session |-> synced.session,
               files |-> Put(files, name, Put(synced.settings, "user_email", JStr(email))),
               out |-> TRUE ]

\* d.get(key), None when the key is missing
GetOr(d, key, default) == IF Has(d, key) THEN d[key] ELSE default

\* ResetManager.check_if_reset: the marker of the sanitized email exists
check_if_reset(markers, email) == email # <<>> /\ Sanitize(email) \in markers

\* ResetManager.record_reset: the marker of the sanitized email is written
record_reset(markers, email) ==
    IF email = <<>> THEN markers ELSE markers \cup {Sanitize(email)}

\* load_settings_by_email, lines 198-203: os.remove(reset_marker)
ClearMarker(markers, name) == markers \ {name}

\* delete_user_settings: the files, the markers and the value returned
delete_user_settings(files, markers, email) ==
    IF email = <<>> THEN [files |-> files, markers |-> markers, out |-> FALSE]
    ELSE IF ~Has(files, Sanitize(email))
    THEN [files |-> files, markers |-> markers, out |-> TRUE]
    ELSE [ files |-> Without(files, {Sanitize(email)}),
           markers |-> record_reset(markers, email),
           out |-> TRUE ]

\* load_settings_by_email, lines 235-282: the learning preferences of the
\* file go to the session, a missing one is initialized when the session
\* has none
RECURSIVE LoadToSession(_, _, _)
LoadToSession(session, settings, keys) ==
    IF keys = <<>> THEN session
    ELSE LET k == Head(keys)
             next == IF Has(settings, k) THEN Put(session, k, NotNull(settings[k]))
                     ELSE IF ~Has(session, k) \/ session[k] = JNull
                     THEN Put(session, k, EmptyDict)
                     ELSE session
         IN  LoadToSession(next, settings, Tail(keys))

ValidPath(settings, key) ==
    Has(settings, key) /\ Truthy(settings[key]) /\ settings[key].kind = "dict"

\* load_settings_by_email, lines 286-304
LoadConsistent(settings, session) ==
    IF ValidPath(settings, "learning_path")
    THEN BothPaths(settings, session, settings.learning_path).session
    ELSE IF ValidPath(settings, "learning_recommendations")
    THEN BothPaths(settings, session, settings.learning_recommendations).session
    ELSE BothPaths(settings, session, EmptyDict).session

\* load_settings_by_email, lines 310-318: the other keys go to the session
LoadOthers(session, settings) ==
    [ k \in DOMAIN session \cup DOMAIN settings |->
        IF Has(settings, k)
           /\ (~Has(session, k) \/ k \notin {"learning_recommendations", "learning_path"})
        THEN settings[k] ELSE session[k] ]

\* the defaults a load returns for an email without usable file
FreshSettings(iap, email) ==
    LET named == Put(DefaultSettings, "user_email", JStr(email))
    IN  IF iap # <<>> /\ iap = email
        THEN Put(named, "is_iap_authenticated", JBool(TRUE)) ELSE named

\* load_settings_by_email: the session, the files, the markers and the
\* settings returned
load_settings_by_email(session, files, markers, iap, email) ==
    LET name == Sanitize(email)
        was_reset == check_if_reset(markers, email)
        is_iap_auth == iap # <<>> /\ iap = email
    IN  IF email = <<>>
        THEN [session |-> session, files |-> files, markers |-> markers,
              out |-> DefaultSettings]
        ELSE IF was_reset \/ ~Has(files, name)
        THEN [ session |-> session, files |-> files,
               markers |-> IF was_reset THEN ClearMarker(markers, name) ELSE markers,
               out |-> FreshSettings(iap, email) ]
        ELSE LET flagged == is_iap_auth
                            /\ ~SettingTruthy(GetOr(files[name], "is_iap_authenticated", JNull))
                 settings == IF flagged
                             THEN Put(files[name], "is_iap_authenticated", JBool(TRUE))
                             ELSE files[name]
                 s1 == LoadToSession(session, settings, learning_preference_keys)
                 s2 == LoadConsistent(settings, s1)
                 returned == IF ValidPath(settings, "learning_path")
                                \/ ValidPath(settings, "learning_recommendations")
                             THEN settings
                             ELSE BothPaths(settings, s1, EmptyDict).settings
             IN  [ session |-> LoadOthers(s2, returned),
                   files |-> IF flagged THEN Put(files, name, settings) ELSE files,
                   markers |-> markers,
                   out |-> returned ]

\* two addresses with the same sanitized name, and no address
Email1 == <<"a", ".", "b", "@", "c">>
Email2 == <<"a", "_dot_", "b", "@", "c">>
NoEmail == <<>>
EmailArgs == {Email1, Email2, NoEmail}

PathA == JDict([next_steps |-> Lit("s1")])
PathB == JDict([next_steps |-> Lit("s2")])

NoFiles == [name \in {} |-> DefaultSettings]

\* the dictionaries a caller hands to save_settings
SettingsArgs ==
    { Update([user_email |-> JStr(email)], paths) :
        email \in {Email1, NoEmail},
        paths \in { NoFiles, [learning_path |-> JNull],
                    [learning_path |-> PathA, learning_recommendations |-> PathB] } }

\* the two keys are present, equal and not null
Mirrored(settings) ==
    /\ Has(settings, "learning_path") /\ Has(settings, "learning_recommendations")
    /\ settings.learning_path = settings.learning_recommendations
    /\ settings.learning_path # JNull

\* an empty data directory and the session initialize_session_state leaves;
\* iap is the address of the X-Goog-Authenticated-User-Email header;
\* deleted holds the addresses whose file a delete_user_settings removed
\* and that no load_settings_by_email has been called for since
\* between two calls nothing is remembered of the last one
Settled(r) ==
    [ r EXCEPT !.op = "idle", !.email = NoEmail, !.out = FALSE, !.had_file = FALSE,
               !.mirrored = TRUE, !.was_deleted = FALSE ]

InitSettings ==
    /\ api_key = FALSE
    /\ adk = [inst |-> "none", model |-> "unset"]
    /\ ss = [learning_recommendations |-> JNull]
    /\ \E iap \in {NoEmail, Email1} :
          run = [ op |-> "idle", email |-> NoEmail, out |-> FALSE,
                  files |-> NoFiles, markers |-> {}, iap |-> iap,
                  had_file |-> FALSE, mirrored |-> TRUE,
                  deleted |-> {}, was_deleted |-> FALSE ]

SaveSettingsCall ==
    \E settings \in SettingsArgs :
        LET r == save_settings(ss, run.files, settings)
            email == settings.user_email.words
        IN  /\ ss' = r.session
            /\ run' = [ run EXCEPT !.op = "save_settings", !.email = email,
                            !.out = r.out, !.files = r.files,
                            !.had_file = Has(run.files, Sanitize(email)),
                            !.mirrored = Mirrored(PreserveFromSession(settings,
                                Update(ss, settings), learning_preference_keys)) ]
            /\ UNCHANGED <<api_key, adk>>

SavePreferencesCall ==
    \E email \in EmailArgs :
        LET r == save_learning_preferences(ss, run.files, email)
        IN  /\ ss' = r.session
            /\ run' = [ run EXCEPT !.op = "save_learning_preferences", !.email = email,
                            !.out = r.out, !.files = r.files,
                            !.had_file = Has(run.files, Sanitize(email)),
                            !.mirrored = Mirrored(ss) ]
            /\ UNCHANGED <<api_key, adk>>

LoadCall ==
    \E email \in EmailArgs :
        LET r == load_settings_by_email(ss, run.files, run.markers, run.iap, email)
        IN  /\ ss' = r.session
            /\ run' = [ run EXCEPT !.op = "load_settings_by_email", !.email = email,
                            !.out = r.out, !.files = r.files, !.markers = r.markers,
                            !.had_file = Has(run.files, Sanitize(email)),
                            !.mirrored = TRUE,
                            !.deleted = run.deleted \ {email},
                            !.was_deleted = email \in run.deleted ]
            /\ UNCHANGED <<api_key, adk>>

DeleteCall ==
    \E email \in EmailArgs :
        LET r == delete_user_settings(run.files, run.markers, email)
        IN  /\ run' = [ run EXCEPT !.op = "delete_user_settings", !.email = email,
                            !.out = r.out, !.files = r.files, !.markers = r.markers,
                            !.had_file = Has(run.files, Sanitize(email)),
                            !.mirrored = TRUE,
                            !.deleted = IF email # NoEmail /\ Has(run.files, Sanitize(email))
                                        THEN run.deleted \cup {email} ELSE run.deleted ]
            /\ UNCHANGED <<api_key, adk, ss>>

\* the learning path page keeps the recommendations the agent returned
SetRecommendations ==
    \E recommendations \in {PathB} :
        /\ ss' = Put(ss, "learning_recommendations", recommendations)
        /\ run' = Settled(run)
        /\ UNCHANGED <<api_key, adk>>

\* the reset page deletes the user's keys from the session
ClearSession ==
    /\ DOMAIN ss \cap {"user_email", "learning_recommendations", "learning_path"} # {}
    /\ ss' = Without(ss, {"user_email", "learning_recommendations", "learning_path"})
    /\ run' = Settled(run)
    /\ UNCHANGED <<api_key, adk>>

NextSettings ==
    \/ SaveSettingsCall
    \/ SavePreferencesCall
    \/ LoadCall
    \/ DeleteCall
    \/ SetRecommendations
    \/ ClearSession

SpecSettings == InitSettings /\ [][NextSettings]_vars

\* C19: after any sequence of save_settings, save_learning_preferences and
\* load_settings_by_email calls, every settings file holds equal values
\* under learning_path and learning_recommendations, and neither is null.
C19_FilesMirrored ==
    \A name \in DOMAIN run.files : Mirrored(run.files[name])

\* save_learning_preferences wrote a file from a session whose two keys
\* were not equal and non-null
C19_Witness ==
    /\ run.op = "save_learning_preferences" /\ run.out = TRUE /\ ~run.mirrored
    /\ Has(run.files, Sanitize(run.email))
    /\ run.files[Sanitize(run.email)].learning_path = PathB

\* the default settings with user_email set to the address
DefaultsFor(email) == Put(DefaultSettings, "user_email", JStr(email))

\* C20: after delete_user_settings(email) removes an existing settings
\* file, a reset marker for that email exists; the next
\* load_settings_by_email(email) returns the default settings with
\* user_email set to that email and removes the marker.
C20_ResetForcesDefaultsOnce ==
    /\ (run.op = "delete_user_settings" /\ run.had_file /\ run.email # NoEmail)
        => Sanitize(run.email) \in run.markers
    /\ (run.op = "load_settings_by_email" /\ run.was_deleted)
        => /\ run.out = DefaultsFor(run.email)
           /\ Sanitize(run.email) \notin run.markers

----------------------------------------------------------------------------
(* UserSettings when the file system fails *)

\* the operation of the file system that fails during a call, if any:
\* reading the settings file, opening it for writing, json.dump into the
\* opened file, shutil.copy2 to the backup, os.remove, writing the marker
Faults == {"none", "read", "open", "dump", "backup", "remove", "marker"}

\* a settings file json.load cannot parse, as a failed json.dump leaves it
Corrupt == [kind |-> "corrupt"]

\* with open(file_name, 'w') as f: json.dump(settings, f), lines 130-134 and
\* 484-488: the files afterwards and whether an exception was raised
WriteFile(files, name, settings, fault) ==
    IF fault = "open" THEN [files |-> files, raised |-> TRUE]
    ELSE IF fault = "dump" THEN [files |-> Put(files, name, Corrupt), raised |-> TRUE]
    ELSE [files |-> Put(files, name, settings), raised |-> FALSE]

\* save_settings under a fault: the except clause returns False
save_settings_io(session, files, settings, fault) ==
    LET r == save_settings(session, files, settings)
        name == Sanitize(settings.user_email.words)
        w == WriteFile(files, name, r.files[name], fault)
    IN  IF ~r.out THEN [session |-> r.session, files |-> files, out |-> FALSE, failed |-> FALSE]
        ELSE [session |-> r.session, files |-> w.files, out |-> ~w.raised,
              failed |-> w.raised]

\* save_learning_preferences under a fault
save_learning_preferences_io(session, files, email, fault) ==
    LET name == Sanitize(email)
        unreadable == Has(files, name) /\ (fault = "read" \/ files[name] = Corrupt)
        r == save_learning_preferences(session, files, email)
        w == WriteFile(files, name, r.files[name], fault)
    IN  IF email = NoEmail
        THEN [session |-> session, files |-> files, out |-> FALSE, failed |-> FALSE]
        ELSE IF unreadable
        THEN [session |-> session, files |-> files, out |-> FALSE, failed |-> TRUE]
        ELSE [session |-> r.session, files |-> w.files, out |-> ~w.raised,
              failed |-> w.raised]

\* delete_user_settings under a fault; record_reset catches its own
\* exception, lines 46-48 of reset_manager.py, and the deletion goes on
delete_user_settings_io(files, backups, markers, email, fault) ==
    LET name == Sanitize(email)
        same == [files |-> files, backups |-> backups, markers |-> markers]
        copied == Put(backups, name, files[name])
    IN  IF email = NoEmail THEN [fs |-> same, out |-> FALSE, failed |-> FALSE]
        ELSE IF ~Has(files, name) THEN [fs |-> same, out |-> TRUE, failed |-> FALSE]
        ELSE IF fault = "backup" THEN [fs |-> same, out |-> FALSE, failed |-> TRUE]
        ELSE IF fault = "remove"
        THEN [fs |-> [same EXCEPT !.backups = copied], out |-> FALSE, failed |-> TRUE]
        ELSE [ fs |-> [ files |-> Without(files, {name}), backups |-> copied,
                        markers |-> IF fault = "marker" THEN markers
                                    ELSE record_reset(markers, email) ],
               out |-> TRUE, failed |-> fault = "marker" ]

\* the settings files a call can find: none, a file earlier calls wrote,
\* a file that cannot be parsed
StoredFiles ==
    { NoFiles,
      Put(NoFiles, Sanitize(Email1), BothPaths(DefaultsFor(Email1), NoFiles, PathA).settings),
      Put(NoFiles, Sanitize(Email1), Corrupt) }

Sessions ==
    { [learning_recommendations |-> JNull], [learning_recommendations |-> PathB],
      [learning_path |-> PathA, learning_recommendations |-> PathB] }

InitPersistence ==
    /\ api_key = FALSE
    /\ adk = [inst |-> "none", model |-> "unset"]
    /\ ss \in Sessions
    /\ \E files \in StoredFiles, email \in EmailArgs, settings \in SettingsArgs,
          fault \in Faults :
          run = [ op |-> "pending", email |-> email, settings |-> settings,
                  fault |-> fault, before |-> files,
                  fs |-> [files |-> files, backups |-> NoFiles, markers |-> {}],
                  out |-> FALSE, failed |-> FALSE ]

SaveSettingsIO ==
    /\ run.op = "pending"
    /\ LET r == save_settings_io(ss, run.fs.files, run.settings, run.fault)
       IN  /\ ss' = r.session
           /\ run' = [ run EXCEPT !.op = "save_settings",
                           !.email = run.settings.user_email.words,
                           !.fs.files = r.files, !.out = r.out, !.failed = r.failed ]
    /\ UNCHANGED <<api_key, adk>>

SavePreferencesIO ==
    /\ run.op = "pending"
    /\ LET r == save_learning_preferences_io(ss, run.fs.files, run.email, run.fault)
       IN  /\ ss' = r.session
           /\ run' = [ run EXCEPT !.op = "save_learning_preferences",
                           !.fs.files = r.files, !.out = r.out, !.failed = r.failed ]
    /\ UNCHANGED <<api_key, adk>>

DeleteIO ==
    /\ run.op = "pending"
    /\ LET r == delete_user_settings_io(run.fs.files, run.fs.backups, run.fs.markers,
                                        run.email, run.fault)
       IN  run' = [ run EXCEPT !.op = "delete_user_settings", !.fs = r.fs,
                        !.out = r.out, !.failed = r.failed ]
    /\ UNCHANGED <<api_key, adk, ss>>

NextPersistence == SaveSettingsIO \/ SavePreferencesIO \/ DeleteIO

SpecPersistence == InitPersistence /\ [][NextPersistence]_vars

\* C21: save_settings, save_learning_preferences and delete_user_settings
\* return False on a read or write failure and when called without an
\* email, and without an email they create, modify or delete no file.
C21_FailureReturnsFalse ==
    run.op # "pending" =>
        /\ run.failed => run.out = FALSE
        /\ run.email = NoEmail =>
              /\ run.out = FALSE
              /\ run.fs = [files |-> run.before, backups |-> NoFiles, markers |-> {}]

----------------------------------------------------------------------------
(* Two sessions of different users in one deployment *)

Email3 == <<"d", "@", "c">>

\* st.session_state of a browser session that has run nothing yet
NewSession == [k \in {} |-> JNull]

\* the files glob("user_settings_*.json") and the relative paths of
\* check_and_load_user_settings see: those of the data directory when the
\* process was started in it, none otherwise
WorkingDir(files, cwd_is_data) == IF cwd_is_data THEN files ELSE NoFiles

\* check_and_load_user_settings: every key of the user's file in the
\* working directory goes to the session
check_and_load_user_settings(session, cwd, email) ==
    IF email # NoEmail /\ Has(cwd, Sanitize(email))
    THEN [session |-> Update(session, cwd[Sanitize(email)]), out |-> TRUE]
    ELSE [session |-> session, out |-> FALSE]

\* check_app_engine_user, email being the address of the IAP header
check_app_engine_user(session, cwd, email) ==
    IF email = NoEmail THEN [session |-> session, out |-> FALSE]
    ELSE check_and_load_user_settings(Put(session, "user_email", JStr(email)), cwd, email)

\* initialize_session_state: the authenticated user's file, then the most
\* recently modified settings file of the working directory, then the
\* defaults of the keys still missing
initialize_session_state(session, cwd, latest, email) ==
    LET s1 == check_app_engine_user(session, cwd, email).session
        s2 == IF DOMAIN cwd # {} THEN Update(s1, cwd[latest]) ELSE s1
    IN  IF Has(s2, "learning_recommendations") THEN s2
        ELSE Put(s2, "learning_recommendations", JNull)

\* main, lines 110-118: the loaded settings go to the session
ApplyLoaded(session, settings) ==
    [ k \in DOMAIN session \cup DOMAIN settings |->
        IF Has(settings, k)
           /\ (~Has(session, k)
               \/ k \in {"user_email", "learning_recommendations", "learning_path"})
        THEN settings[k] ELSE session[k] ]

\* main, lines 84-118, one run of the script up to the page: the session
\* and the files afterwards and the name of the settings file written, if
\* any; no user is reset in these runs, so no marker exists
MainPreludeSettings(session, files, cwd_is_data, latest, email) ==
    LET cwd == WorkingDir(files, cwd_is_data)
        s1 == initialize_session_state(session, cwd, latest, email)
        auth == check_app_engine_user(s1, cwd, email)
        s2 == IF ~auth.out /\ ~Truthy(GetOr(auth.session, "user_email", JNull))
                 /\ email # NoEmail
              THEN Put(auth.session, "user_email", JStr(email)) ELSE auth.session
        mine == GetOr(s2, "user_email", JStr(NoEmail)).words
        r == load_settings_by_email(s2, files, {}, email, mine)
    IN  IF mine = NoEmail THEN [session |-> s2, files |-> files, wrote |-> NoEmail]
        ELSE [ session |-> ApplyLoaded(r.session, r.out), files |-> r.files,
               wrote |-> IF r.files # files THEN Sanitize(mine) ELSE NoEmail ]

\* main, lines 1258-1292, Save Settings: the address is the authenticated
\* one or the one typed
SaveSettingsPage(session, files, iap, typed, font_size) ==
    LET user_email == IF iap # NoEmail THEN iap ELSE typed
        settings_dict == [ user_email |-> JStr(user_email), font_size |-> font_size,
                           is_iap_authenticated |-> JBool(iap # NoEmail) ]
        existing == load_settings_by_email(session, files, {}, iap, user_email)
        merged == Update(existing.out, settings_dict)
    IN  save_settings(existing.session, existing.files, merged)

Browsers == {"A", "B"}
Other(b) == IF b = "A" THEN "B" ELSE "A"

\* what each user chooses and is recommended, to tell whose a value is
FontOf(b) == Lit(b)
PathOf(b) == IF b = "A" THEN PathA ELSE PathB

\* two browser sessions that have run nothing, an empty data directory;
\* user gives the address of each session's user, iap tells whether the
\* deployment authenticates them with the IAP header
InitSessions ==
    /\ api_key = FALSE
    /\ adk = [inst |-> "none", model |-> "unset"]
    /\ ss = [b \in Browsers |-> NewSession]
    /\ \E other \in {Email2, Email3}, iap \in BOOLEAN, cwd_is_data \in BOOLEAN :
          run = [ op |-> "idle", who |-> "A", user |-> [A |-> Email1, B |-> other],
                  iap |-> iap, cwd_is_data |-> cwd_is_data,
                  files |-> NoFiles, latest |-> NoEmail ]

Header(b) == IF run.iap THEN run.user[b] ELSE NoEmail

\* a session runs the script: every interaction of a browser does
ScriptRun ==
    \E b \in Browsers :
        LET r == MainPreludeSettings(ss[b], run.files, run.cwd_is_data, run.latest,
                                     Header(b))
        IN  /\ ss' = [ss EXCEPT ![b] = r.session]
            /\ run' = [ run EXCEPT !.op = "main", !.who = b, !.files = r.files,
                            !.latest = IF r.wrote # NoEmail THEN r.wrote ELSE run.latest ]
            /\ UNCHANGED <<api_key, adk>>

\* a user saves the settings page under the user's own address
SaveSettingsClick ==
    \E b \in Browsers :
        LET r == SaveSettingsPage(ss[b], run.files, Header(b), run.user[b], FontOf(b))
        IN  /\ Has(ss[b], "learning_recommendations")
            /\ ss' = [ss EXCEPT ![b] = r.session]
            /\ run' = [ run EXCEPT !.op = "save_settings", !.who = b, !.files = r.files,
                            !.latest = Sanitize(run.user[b]) ]
            /\ UNCHANGED <<api_key, adk>>

\* main, lines 813-819: the recommendations generated for a user are kept
\* and saved when the session has an address
RecommendationsClick ==
    \E b \in Browsers :
        LET s1 == Put(ss[b], "learning_recommendations", PathOf(b))
            mine == GetOr(s1, "user_email", JStr(NoEmail)).words
            r == save_learning_preferences(s1, run.files, mine)
        IN  /\ Has(ss[b], "learning_recommendations")
            /\ ss' = [ss EXCEPT ![b] = r.session]
            /\ run' = [ run EXCEPT !.op = "save_learning_preferences", !.who = b,
                            !.files = r.files,
                            !.latest = IF r.out THEN Sanitize(mine) ELSE run.latest ]
            /\ UNCHANGED <<api_key, adk>>

NextSessions == ScriptRun \/ SaveSettingsClick \/ RecommendationsClick

SpecSessions == InitSessions /\ [][NextSessions]_vars

\* the session holds a value that only the other user's settings hold
Foreign(session, b) ==
    \/ Has(session, "user_email") /\ session.user_email = JStr(run.user[Other(b)])
    \/ Has(session, "font_size") /\ session.font_size = FontOf(Other(b))
    \/ Has(session, "learning_path") /\ session.learning_path = PathOf(Other(b))
    \/ Has(session, "learning_recommendations")
        /\ session.learning_recommendations = PathOf(Other(b))

\* C22: a session's state is never populated from another user's
\* settings: every settings value loaded into a session comes from the
\* file of the session's own user or from the defaults.
C22_NoForeignSettings == \A b \in Browsers : ~Foreign(ss[b], b)

----------------------------------------------------------------------------
(* Input validation of the generation agents *)

\* the transcript is a string that is empty or has fewer than 50
\* characters once trimmed
EmptyOrShort(transcript) ==
    transcript.kind = "text" /\ (transcript.text = <<>> \/ TooShort(transcript))

\* C23: each generation agent that takes a transcript (summary, overview,
\* quiz, flashcard), given a transcript that is empty or has fewer than 50
\* trimmed characters, returns an artifact and sends no request to the
\* text generation client.
C23_ShortTranscriptNoRequest ==
    ( /\ Returned
      /\ run.call \in { "generate_summary", "generate_overview", "generate_quiz",
                        "generate_flashcards" }
      /\ EmptyOrShort(run.transcript) )
    => /\ run.requests = <<>>
       /\ run.out.kind = "ret"

----------------------------------------------------------------------------
(* Two sessions of one process select the model *)

\* both sessions start with the default model selected and no run begun;
\* at[b] tells whether b's run of the script has passed set_model and not
\* yet called generate_text, intervened[b] whether the other session's
\* set_model came after b's
InitShared ==
    /\ api_key \in BOOLEAN
    /\ adk = [inst |-> "none", model |-> "unset"]
    /\ ss = [b \in Browsers |-> [ai_model |-> DefaultModel]]
    /\ run = [ op |-> "idle", who |-> "A", at |-> [b \in Browsers |-> "idle"],
               intervened |-> [b \in Browsers |-> FALSE],
               last_set |-> "none", setter |-> "A", used |-> "none" ]

\* the sidebar: a user picks a model for the user's session
PickModel ==
    \E b \in Browsers, m \in ModelNames :
        /\ ss[b].ai_model # m
        /\ ss' = [ss EXCEPT ![b].ai_model = m]
        /\ run' = [run EXCEPT !.op = "pick", !.who = b]
        /\ UNCHANGED <<api_key, adk>>

\* main, lines 127-130: GoogleADKManager() and set_model(ai_model); a
\* construction that raises ends the run
SelectInRun ==
    \E b \in Browsers :
        LET c == Construct(adk, api_key)
        IN  /\ run.at[b] = "idle"
            /\ adk' = IF c.raised THEN c.adk ELSE set_model(c.adk, ss[b].ai_model)
            /\ run' = IF c.raised
                      THEN [run EXCEPT !.op = "construct_raised", !.who = b]
                      ELSE [ run EXCEPT !.op = "set_model", !.who = b,
                                 !.at[b] = "selected",
                                 !.intervened = [x \in Browsers |-> x # b /\ run.at[x] = "selected"],
                                 !.last_set = ss[b].ai_model, !.setter = b ]
            /\ UNCHANGED <<api_key, ss>>

\* a page of the run calls generate_text through an agent
GenerateInRun ==
    \E b \in Browsers :
        /\ run.at[b] = "selected"
        /\ run' = [ run EXCEPT !.op = "generate_text", !.who = b, !.at[b] = "idle",
                        !.used = ModelUsed(adk) ]
        /\ UNCHANGED <<api_key, adk, ss>>

\* a run ends without a call
EndRun ==
    \E b \in Browsers :
        /\ run.at[b] = "selected"
        /\ run' = [ run EXCEPT !.op = "end", !.who = b, !.at[b] = "idle",
                        !.intervened[b] = FALSE ]
        /\ UNCHANGED <<api_key, adk, ss>>

NextShared == PickModel \/ SelectInRun \/ GenerateInRun \/ EndRun

SpecShared == InitShared /\ [][NextShared]_vars

\* C24: model selection is last-write-wins: a generate_text call runs with
\* the model of the latest set_model of either session, so with the other
\* session's model when that session's set_model came between the
\* caller's set_model and the call.
C24_LastWriteWins ==
    run.op = "generate_text" =>
        /\ run.used = run.last_set
        /\ run.intervened[run.who] => run.setter = Other(run.who)

\* A selected one model, B another after it, and A's call ran with B's
C24_Witness ==
    /\ run.op = "generate_text" /\ run.who = "A"
    /\ run.intervened["A"]
    /\ ss["A"].ai_model = "gemini-1.5-pro"
    /\ ss["B"].ai_model = "gemini-pro"
    /\ run.used = "gemini-pro"

----------------------------------------------------------------------------
(* Two sessions of one user save the learning preferences at once *)

\* a settings file open(file, 'w') has emptied and nothing is written to yet
Truncated == [kind |-> "truncated"]

\* the length of the text json.dump writes, as far as the dictionaries of
\* the model differ in it: empty recommendations make the shorter text
Size(settings) ==
    IF settings.learning_recommendations = EmptyDict THEN 1 ELSE 2

\* json.dump and close through a handle opened before present was
\* written: the text goes to the start of the file, and what present holds
\* beyond its end stays
Overwrite(present, settings) ==
    IF present = Truncated THEN settings
    ELSE IF present = Corrupt THEN Corrupt
    ELSE IF present = settings \/ Size(settings) >= Size(present) THEN settings
    ELSE Corrupt

\* the sessions a call can find: no preference of the two set, none or
\* one recommended
SessionArgs ==
    { NewSession, [learning_recommendations |-> JNull],
      [learning_recommendations |-> PathA], [learning_recommendations |-> PathB] }

\* the file of the user before the two calls
FilesBefore ==
    { NoFiles,
      Put(NoFiles, Sanitize(Email1), DefaultsFor(Email1)),
      Put(NoFiles, Sanitize(Email1), BothPaths(DefaultsFor(Email1), NoFiles, PathA).settings) }

\* both sessions are about to call save_learning_preferences(Email1);
\* at[b] is the place of b's call, settings[b] the dictionary it holds
\* after line 481, out[b] what it returned, last the session whose
\* json.dump came last
InitRace ==
    /\ api_key = FALSE
    /\ adk = [inst |-> "none", model |-> "unset"]
    /\ ss \in [Browsers -> SessionArgs]
    /\ \E files \in FilesBefore :
          run = [ op |-> "pending", files |-> files,
                  at |-> [b \in Browsers |-> "called"],
                  settings |-> [b \in Browsers |-> NewSession],
                  out |-> [b \in Browsers |-> FALSE],
                  last |-> "none" ]

\* lines 412-481 of one call: the file is read, or the defaults taken, and
\* the session's values merged into the dictionary; json.load raises on a
\* file that is empty or holds no JSON text and the call returns False
ReadAndMerge ==
    \E b \in Browsers :
        LET name == Sanitize(Email1)
            unreadable == Has(run.files, name) /\ run.files[name] \in {Truncated, Corrupt}
            r == save_learning_preferences(ss[b], run.files, Email1)
        IN  /\ run.at[b] = "called"
            /\ ss' = IF unreadable THEN ss ELSE [ss EXCEPT ![b] = r.session]
            /\ run' = IF unreadable
                      THEN [run EXCEPT !.op = "read_raised", !.at[b] = "returned"]
                      ELSE [ run EXCEPT !.op = "read", !.at[b] = "merged",
                                 !.settings[b] = r.files[name] ]
            /\ UNCHANGED <<api_key, adk>>

\* line 487: open(user_settings_file, 'w') empties the file
OpenForWriting ==
    \E b \in Browsers :
        /\ run.at[b] = "merged"
        /\ run' = [ run EXCEPT !.op = "open", !.at[b] = "opened",
                        !.files = Put(run.files, Sanitize(Email1), Truncated) ]
        /\ UNCHANGED <<api_key, adk, ss>>

\* lines 488-494: json.dump, the file is closed and True returned
DumpAndReturn ==
    \E b \in Browsers :
        /\ run.at[b] = "opened"
        /\ run' = [ run EXCEPT !.op = "write", !.at[b] = "returned", !.out[b] = TRUE,
                        !.last = b,
                        !.files = Put(run.files, Sanitize(Email1),
                                      Overwrite(run.files[Sanitize(Email1)],
                                                run.settings[b])) ]
        /\ UNCHANGED <<api_key, adk, ss>>

NextRace == ReadAndMerge \/ OpenForWriting \/ DumpAndReturn

SpecRace == InitRace /\ [][NextRace]_vars

BothReturned == \A b \in Browsers : run.at[b] = "returned"

\* C25: when two sessions of one email run save_learning_preferences
\* concurrently, the last writer wins: the file finally holds exactly the
\* content computed by the session that wrote last.
C25_LastWriterWins ==
    (BothReturned /\ run.last # "none")
    => run.files[Sanitize(Email1)] = run.settings[run.last]

----------------------------------------------------------------------------
(* Constructions after a failed initialization *)

\* C26: every GoogleADKManager() construction either raises the
\* missing-API-key error or returns an instance whose model name is set;
\* after a construction that failed inside _initialize, later
\* constructions fail the same way.
C26_ConstructedIsInitialized ==
    run.op = "constructed" => (adk.inst = "ready" /\ adk.model # "unset")

----------------------------------------------------------------------------
(* Settings saved after a reset *)

\* C27: after delete_user_settings(email) followed by a successful
\* save_settings or save_learning_preferences for that email, the next
\* load_settings_by_email(email) returns the settings that were saved.
C27_SavedAfterResetLoaded ==
    ( /\ run.op = "load_settings_by_email" /\ run.was_deleted /\ run.had_file
      /\ run.files[Sanitize(run.email)].user_email = JStr(run.email) )
    => run.out = run.files[Sanitize(run.email)]

----------------------------------------------------------------------------
(* LearningPathAgent: the user data files *)

\* str.lower() on the values of auth_source the model uses
Lower(word) == IF word = "Google" THEN "google" ELSE word

\* is_auth_email: user_settings.get('auth_source', '').lower() is one of
\* google, iap, oauth
is_auth_email(user_settings) ==
    Lower(GetOr(user_settings, "auth_source", "")) \in {"google", "iap", "oauth"}

can_change_email(user_settings) == ~is_auth_email(user_settings)

\* save_user_data: the files and the value returned
save_user_data(files, email, user_settings, learning_path) ==
    IF email = NoEmail THEN [files |-> files, out |-> FALSE]
    ELSE [ files |-> Put(files, Sanitize(email),
                         [ email |-> email, settings |-> user_settings,
                           learning_path |-> learning_path,
                           auth_source |-> GetOr(user_settings, "auth_source", "direct") ]),
           out |-> TRUE ]

\* load_user_data: the data of the file, None without email or file
load_user_data(files, email) ==
    IF email = NoEmail \/ ~Has(files, Sanitize(email)) THEN NoneVal
    ELSE Ret(files[Sanitize(email)])

\* update_email: the files and the success flag of the tuple returned
update_email(files, old_email, new_email, user_settings) ==
    LET user_data == load_user_data(files, old_email)
        saved == save_user_data(files, new_email, Put(user_settings, "email", new_email),
                                user_data.val.learning_path)
    IN  IF ~can_change_email(user_settings) THEN [files |-> files, out |-> FALSE]
        ELSE IF user_data = NoneVal THEN [files |-> files, out |-> FALSE]
        ELSE IF ~saved.out THEN [files |-> files, out |-> FALSE]
        ELSE [files |-> Without(saved.files, {Sanitize(old_email)}), out |-> TRUE]

\* the settings a caller passes: no auth_source, a direct and an
\* authenticated account
UserSettingsArgs ==
    {NewSession, [auth_source |-> "direct"], [auth_source |-> "Google"]}

AllEmails == {Email1, Email2, Email3, NoEmail}

\* an empty user data directory
InitUserData ==
    /\ api_key = FALSE
    /\ adk = [inst |-> "none", model |-> "unset"]
    /\ ss = NewSession
    /\ run = [ op |-> "idle", files |-> NoFiles, old |-> NoEmail, new |-> NoEmail,
               out |-> FALSE, stored |-> NoneVal, loaded |-> NoneVal ]

CallSaveUserData ==
    \E email \in AllEmails, user_settings \in UserSettingsArgs,
       learning_path \in {PathA, PathB} :
        LET r == save_user_data(run.files, email, user_settings, learning_path)
        IN  /\ run' = [ run EXCEPT !.op = "save_user_data", !.files = r.files,
                            !.old = NoEmail, !.new = email, !.out = r.out,
                            !.stored = NoneVal, !.loaded = NoneVal ]
            /\ UNCHANGED <<api_key, adk, ss>>

\* stored is what load_user_data(old_email) gave before the call
CallUpdateEmail ==
    \E old_email \in AllEmails, new_email \in AllEmails,
       user_settings \in UserSettingsArgs :
        LET r == update_email(run.files, old_email, new_email, user_settings)
        IN  /\ run' = [ run EXCEPT !.op = "update_email", !.files = r.files,
                            !.old = old_email, !.new = new_email, !.out = r.out,
                            !.stored = load_user_data(run.files, old_email),
                            !.loaded = NoneVal ]
            /\ UNCHANGED <<api_key, adk, ss>>

\* load_user_data(new_email) after an update_email
CallLoadUserData ==
    /\ run.op = "update_email"
    /\ run' = [run EXCEPT !.op = "load_user_data", !.loaded = load_user_data(run.files, run.new)]
    /\ UNCHANGED <<api_key, adk, ss>>

NextUserData == CallSaveUserData \/ CallUpdateEmail \/ CallLoadUserData

SpecUserData == InitUserData /\ [][NextUserData]_vars

\* C28: whenever update_email(old_email, new_email, settings) reports
\* success, load_user_data(new_email) afterwards returns the user's data
\* with the learning path that was stored under old_email, for every pair
\* of emails, new_email equal to old_email included.
C28_UpdatedEmailKeepsPath ==
    (run.op = "load_user_data" /\ run.out)
    => /\ run.loaded # NoneVal
       /\ run.loaded.val.learning_path = run.stored.val.learning_path

----------------------------------------------------------------------------
(* One settings file per user *)

\* C29: two different emails never map to the same settings file, so the
\* file addressed by a user's email holds what that user saved and never
\* what another user saved.
C29_OneFilePerUser ==
    \A b \in Browsers :
        Has(run.files, Sanitize(run.user[b]))
        => /\ run.files[Sanitize(run.user[b])].user_email = JStr(run.user[b])
           /\ GetOr(run.files[Sanitize(run.user[b])], "font_size", FontOf(b))
                # FontOf(Other(b))

----------------------------------------------------------------------------
(* user_progress under the actions that change it *)

\* int(score_percentage / 10) with score_percentage
\* (correct_count / len(quiz_questions)) * 100; the float result has the
\* integer part of the exact quotient for the quiz lengths of the model
ProgressIncrement(correct_count, questions) ==
    ((correct_count * 100) \div questions) \div ScoreDivisor

\* min(100, user_progress + progress_increment)
QuizProgress(p, correct_count, questions) ==
    IF p + ProgressIncrement(correct_count, questions) < MaxProgress
    THEN p + ProgressIncrement(correct_count, questions) ELSE MaxProgress

\* user_progress += 5, capped at 100
MilestoneProgress(p) ==
    IF p + MilestoneStep > MaxProgress THEN MaxProgress ELSE p + MilestoneStep

VideoUrls == 1..MaxWatched
MilestoneIds == 1..MaxMilestones

\* the keys of the session the four actions read and write; before is
\* user_progress as the last action found it
InitProgress ==
    /\ api_key = FALSE
    /\ adk = [inst |-> "none", model |-> "unset"]
    /\ \E p \in 0..MaxProgress :
          /\ ss = [ user_progress |-> p, watched_videos |-> <<>>,
                    completed_milestones |-> <<>>, show_video |-> {} ]
          /\ run = [op |-> "idle", before |-> p]

\* main, lines 275-281: a processed video not yet in the watch history
VideoProcessed ==
    \E url \in VideoUrls :
        LET seen == Watched(ss.watched_videos, url)
        IN  /\ ss' = [ ss EXCEPT
                         !.watched_videos = IF seen THEN @ ELSE Append(@, [url |-> url]),
                         !.user_progress = IF seen THEN @ ELSE BumpProgress(@) ]
            /\ run' = [op |-> "process_video", before |-> ss.user_progress]
            /\ UNCHANGED <<api_key, adk>>

\* main, lines 689-709: Watch in Player toggles the player and counts a
\* video not watched before when the player opens
WatchInPlayer ==
    \E url \in VideoUrls :
        LET already_watched == Watched(ss.watched_videos, url)
            current_state == url \in ss.show_video
            counted == ~already_watched /\ ~current_state
        IN  /\ ss' = [ ss EXCEPT
                         !.show_video = IF current_state THEN @ \ {url} ELSE @ \cup {url},
                         !.watched_videos = IF counted THEN Append(@, [url |-> url]) ELSE @,
                         !.user_progress = IF counted THEN BumpProgress(@) ELSE @ ]
            /\ run' = [op |-> "watch_in_player", before |-> ss.user_progress]
            /\ UNCHANGED <<api_key, adk>>

\* main, lines 486-519: the results of a submitted quiz are shown
QuizResults ==
    \E questions \in 1..MaxQuestions :
        \E correct_count \in 0..questions :
            /\ ss' = [ ss EXCEPT
                         !.user_progress = QuizProgress(@, correct_count, questions) ]
            /\ run' = [op |-> "quiz_results", before |-> ss.user_progress]
            /\ UNCHANGED <<api_key, adk>>

\* main, lines 1053-1060: Mark Complete on a milestone
MarkComplete ==
    \E id \in MilestoneIds :
        LET done == \E i \in 1..Len(ss.completed_milestones) :
                        ss.completed_milestones[i] = id
        IN  /\ ss' = [ ss EXCEPT
                         !.completed_milestones = IF done THEN @ ELSE Append(@, id),
                         !.user_progress = IF done THEN @ ELSE MilestoneProgress(@) ]
            /\ run' = [op |-> "mark_complete", before |-> ss.user_progress]
            /\ UNCHANGED <<api_key, adk>>

NextProgress == VideoProcessed \/ WatchInPlayer \/ QuizResults \/ MarkComplete

SpecProgress == InitProgress /\ [][NextProgress]_vars

====
